---- MODULE Spec2Model ----
(***************************************************************************)
(* Model of the monkey-go bytecode compiler (package compiler) and stack   *)
(* virtual machine (package vm).  A program (an AST) is compiled by a      *)
(* fresh compiler; when compilation succeeds the VM is constructed on the  *)
(* bytecode and Run executes one dispatch-loop iteration per step.         *)
(***************************************************************************)
EXTENDS Integers, Sequences, FiniteSets, TLC

VARIABLES
    program,      \* the AST handed to Compiler.Compile, as its index in Programs
    compileErr,   \* error returned by Compile
    constants,    \* VM.constants (Bytecode.Constants)
    mainFn,       \* the CompiledFunction vm.New makes of Bytecode.Instructions
    frames,       \* VM.frames[0 .. fp-1], each [fn, ip], fn being the
                  \* identity of the CompiledFunction pointed to
    fp,           \* VM.fp
    stack,        \* VM.stack[0 .. high-water mark); slots above are nil
    sp,           \* VM.sp
    globals,      \* VM.globals, as the sequence of slots written so far
    heap,         \* number of objects allocated so far (object identity)
    status,       \* "ready" | "running" | "halted" | "failed" | "panicked" | "rejected"
    err,          \* error returned by Run, or <<"panic", cause>> of a panic
    lastOp,       \* opcode dispatched by the last loop iteration (-1 = none)
    basePointers, \* history: for each frame, sp - n when its OpCall n was
                  \* dispatched (0 for the main frame); Frame has no such field
    codec,        \* one instruction on its way through emit and the operand
                  \* read (idle while a program runs)
    repl,         \* the locals of repl.Start: the symbol table shared by the
                  \* lines, the lines scanned so far (indices in ReplLines)
                  \* and the text written to out (idle outside the REPL)
    symtab        \* a chain of symbol tables under a sequence of calls
                  \* (idle outside the symbol-table specification)

vars == <<program, compileErr, constants, mainFn, frames, fp, stack, sp, globals,
          heap, status, err, lastOp, basePointers, codec, repl, symtab>>

----------------------------------------------------------------------------
(* Bounds of the model *)

\* largest integer literal of the generated programs (literals 0..MaxLit)
MaxLit == 2

\* number of pairs of a hash literal up to which every order of the map
\* iteration is drawn
MaxPairs == 2

\* number of lines the REPL scans
MaxLines == 3

\* number of calls made on the symbol tables
MaxCalls == 4

\* width in bits of the modelled machine integer: int64 is scaled down so
\* that every intermediate result is representable in the model's integers
WordBits == 16

----------------------------------------------------------------------------
(* Program constants *)

StackSize == 2048
GlobalsSize == 65536
MaxFrames == 1024

----------------------------------------------------------------------------
(* package code: opcodes, in the order of the instruction table *)

OpConstant == 0
OpAdd == 1
OpSub == 2
OpMul == 3
OpDiv == 4
OpPop == 5
OpTrue == 6
OpFalse == 7
OpEqual == 8
OpNotEqual == 9
OpGreaterThan == 10
OpMinus == 11
OpBang == 12
OpJump == 13
OpJumpNotTruthy == 14
OpNull == 15
OpSetGlobal == 16
OpGetGlobal == 17
OpArray == 18
OpHash == 19
OpIndex == 20
OpCall == 21
OpReturnValue == 22
OpReturn == 23
OpSetLocal == 24
OpGetLocal == 25
OpGetBuiltin == 26
OpClosure == 27
OpGetFree == 28

\* operand widths in bytes, per opcode
OperandWidths(op) ==
    CASE op \in {OpConstant, OpJump, OpJumpNotTruthy, OpSetGlobal,
                 OpGetGlobal, OpArray, OpHash} -> <<2>>
      [] op \in {OpCall, OpSetLocal, OpGetLocal, OpGetBuiltin, OpGetFree} -> <<1>>
      [] op = OpClosure -> <<2, 1>>
      [] OTHER -> <<>>

\* big-endian encoding of one operand in w bytes (the value is truncated
\* to the width, as the conversion to uint16 / byte does)
PutOperand(o, w) ==
    IF w = 2 THEN <<(o % 65536) \div 256, o % 256>> ELSE <<o % 256>>

RECURSIVE PutOperands(_, _, _)
PutOperands(operands, widths, i) ==
    IF i > Len(widths) \/ i > Len(operands) THEN <<>>
    ELSE PutOperand(operands[i], widths[i]) \o PutOperands(operands, widths, i + 1)

\* code.Make: the opcode byte followed by its operands
Make(op, operands) == <<op>> \o PutOperands(operands, OperandWidths(op), 1)

\* the bytes one instruction of the opcode takes
InstructionLength(op) ==
    LET widths == OperandWidths(op)
    IN 1 + (IF Len(widths) = 0 THEN 0
            ELSE IF Len(widths) = 1 THEN widths[1]
            ELSE widths[1] + widths[2])

\* the offsets at which the instructions of ins[pos:] start
RECURSIVE InstructionStarts(_, _)
InstructionStarts(ins, pos) ==
    IF pos >= Len(ins) THEN {}
    ELSE {pos} \cup InstructionStarts(ins, pos + InstructionLength(ins[pos + 1]))

\* code.ReadUint8 on the slice ins[pos:]
ReadUint8(ins, pos) == ins[pos + 1]

\* code.ReadUint16 on the slice ins[pos:], pos a 0-based byte offset; the
\* caller checks that two bytes are there
ReadUint16(ins, pos) == ins[pos + 1] * 256 + ins[pos + 2]

\* code.ReadOperands on the slice ins[pos:] for the widths from the i-th
\* on: the operands read and the number of bytes read
RECURSIVE ReadOperandsFrom(_, _, _, _)
ReadOperandsFrom(widths, ins, pos, i) ==
    IF i > Len(widths) THEN [operands |-> <<>>, read |-> 0]
    ELSE LET rest == ReadOperandsFrom(widths, ins, pos + widths[i], i + 1)
             operand == IF widths[i] = 2 THEN ReadUint16(ins, pos)
                        ELSE ReadUint8(ins, pos)
         IN [operands |-> <<operand>> \o rest.operands,
             read |-> widths[i] + rest.read]

ReadOperands(op, ins, pos) == ReadOperandsFrom(OperandWidths(op), ins, pos, 1)

----------------------------------------------------------------------------
(* package object: runtime values.  id is the identity of the Go object   *)
(* (pointer equality is equality of id).                                   *)

INTEGER_OBJ == "INTEGER"
BOOLEAN_OBJ == "BOOLEAN"
NULL_OBJ == "NULL"
STRING_OBJ == "STRING"
ARRAY_OBJ == "ARRAY"
HASH_OBJ == "HASH"
COMPILED_FUNCTION_OBJ == "COMPILED_FUNCTION_OBJ"

Obj(t, v, i) == [type |-> t, val |-> v, id |-> i]

\* the nil interface value (an unwritten stack or globals slot)
Nil == Obj("nil", 0, 0)

\* vm.True, vm.False, vm.Null
True == Obj(BOOLEAN_OBJ, TRUE, 1)
False == Obj(BOOLEAN_OBJ, FALSE, 2)
Null == Obj(NULL_OBJ, 0, 3)

\* identities below this are the package-level singletons
FirstHeapId == 4

\* int64 arithmetic: reduction to the signed two's complement word
HalfWord == 2 ^ (WordBits - 1)
Wrap64(x) == ((x + HalfWord) % (2 * HalfWord)) - HalfWord

\* Go integer division truncates toward zero
Abs(x) == IF x < 0 THEN -x ELSE x
GoDiv(a, b) ==
    IF (a < 0) = (b < 0) THEN Abs(a) \div Abs(b) ELSE -(Abs(a) \div Abs(b))

----------------------------------------------------------------------------
(* package ast: the nodes the compiler consumes *)

Program(stmts) == [kind |-> "Program", Statements |-> stmts]
LetStatement(name, value) == [kind |-> "LetStatement", Name |-> name, Value |-> value]
ReturnStatement(value) == [kind |-> "ReturnStatement", ReturnValue |-> value]
ExpressionStatement(e) == [kind |-> "ExpressionStatement", Expression |-> e]
BlockStatement(stmts) == [kind |-> "BlockStatement", Statements |-> stmts]
Identifier(name) == [kind |-> "Identifier", Value |-> name]
IntegerLiteral(v) == [kind |-> "IntegerLiteral", Value |-> v]
BooleanLiteral(b) == [kind |-> "Boolean", Value |-> b]
StringLiteral(s) == [kind |-> "StringLiteral", Value |-> s]
PrefixExpression(op, right) == [kind |-> "PrefixExpression", Operator |-> op, Right |-> right]
InfixExpression(op, left, right) ==
    [kind |-> "InfixExpression", Operator |-> op, Left |-> left, Right |-> right]
\* Alternative is NoAlternative when the if has no else
NoAlternative == [kind |-> "nil"]
IfExpression(cond, cons, alt) ==
    [kind |-> "IfExpression", Condition |-> cond, Consequence |-> cons, Alternative |-> alt]
ArrayLiteral(elems) == [kind |-> "ArrayLiteral", Elements |-> elems]
\* Pairs is the Go map as a sequence of <<key, value>> nodes
HashLiteral(pairs) == [kind |-> "HashLiteral", Pairs |-> pairs]
IndexExpression(left, index) == [kind |-> "IndexExpression", Left |-> left, Index |-> index]
FunctionLiteral(params, body) ==
    [kind |-> "FunctionLiteral", Parameters |-> params, Body |-> body]
CallExpression(fn, args) == [kind |-> "CallExpression", Function |-> fn, Arguments |-> args]

\* ast String() of a hash-literal key, as character codes; literal keys only
RECURSIVE Digits(_)
Digits(n) == IF n < 10 THEN <<48 + n>> ELSE Digits(n \div 10) \o <<48 + (n % 10)>>

CharCodes(s) ==
    CASE s = "a" -> <<97>>
      [] s = "b" -> <<98>>
      [] s = "one" -> <<111, 110, 101>>
      [] s = "two" -> <<116, 119, 111>>
      [] s = "ab" -> <<97, 98>>
      [] OTHER -> <<>>

NodeString(node) ==
    CASE node.kind = "IntegerLiteral" -> Digits(node.Value)
      [] node.kind = "Boolean" ->
            IF node.Value THEN <<116, 114, 117, 101>> ELSE <<102, 97, 108, 115, 101>>
      [] node.kind = "StringLiteral" -> CharCodes(node.Value)
      [] OTHER -> <<>>

\* Go's < on strings: byte-wise lexicographic order
RECURSIVE StringLess(_, _)
StringLess(a, b) ==
    IF b = <<>> THEN FALSE
    ELSE IF a = <<>> THEN TRUE
    ELSE IF Head(a) # Head(b) THEN Head(a) < Head(b)
    ELSE StringLess(Tail(a), Tail(b))

----------------------------------------------------------------------------
(* package compiler: symbol table *)

GlobalScope == "GLOBAL"
LocalScope == "LOCAL"
BuiltinScope == "BUILTIN"
FreeScope == "FREE"

Symbol(name, scope, index) == [Name |-> name, Scope |-> scope, Index |-> index]

\* object.Builtins, by index
Builtins == <<"len", "puts", "first", "last", "rest", "push">>

\* NewSymbolTable: an empty store
NewSymbolTable == [store |-> <<>>, numDefinitions |-> 0, FreeSymbols |-> <<>>]

\* the store is a Go map name -> Symbol, kept as the sequence of its
\* entries; a later entry for a name replaces the earlier one
StoreHas(s, name) == \E i \in 1..Len(s.store) : s.store[i].Name = name
StoreGet(s, name) ==
    LET i == CHOOSE j \in 1..Len(s.store) :
                 /\ s.store[j].Name = name
                 /\ \A k \in (j + 1)..Len(s.store) : s.store[k].Name # name
    IN s.store[i]

\* SymbolTable.Define: the symbol defined
DefinedSymbol(s, name) == Symbol(name, GlobalScope, s.numDefinitions)

\* SymbolTable.Define: the table afterwards
Define(s, name) ==
    [s EXCEPT !.store = Append(@, DefinedSymbol(s, name)),
              !.numDefinitions = @ + 1]

\* SymbolTable.DefineBuiltin
DefineBuiltin(s, i, name) ==
    [s EXCEPT !.store = Append(@, Symbol(name, BuiltinScope, i))]

\* SymbolTable.Resolve: ok
ResolveOk(s, name) == StoreHas(s, name)

\* SymbolTable.Resolve: the symbol (when ok)
Resolve(s, name) == StoreGet(s, name)

RECURSIVE DefineBuiltins(_, _)
DefineBuiltins(s, i) ==
    IF i > Len(Builtins) THEN s
    ELSE DefineBuiltins(DefineBuiltin(s, i - 1, Builtins[i]), i + 1)

----------------------------------------------------------------------------
(* package compiler: the compiler.  A compiler value c is                  *)
(*   constants   : Compiler.constants                                      *)
(*   symbolTable : the chain of symbol tables, root first; the last one is *)
(*                 Compiler.symbolTable and the one before it is its Outer *)
(*   scopes      : Compiler.scopes                                         *)
(*   scopeIdx    : Compiler.scopeIdx                                       *)
(*   heap        : number of objects allocated so far                      *)
(*   rangeOrder  : the order in which `range` delivers the keys of a map   *)
(*   err         : the error Compile returns                               *)

\* a Go error is the tuple of its message parts; nil is the empty tuple
NoError == <<>>

EmittedInstruction(op, pos) == [Opcode |-> op, Position |-> pos]

CompilationScope ==
    [instructions |-> <<>>,
     lastInstruction |-> EmittedInstruction(0, 0),
     prevInstruction |-> EmittedInstruction(0, 0)]

\* compiler.New
New ==
    [constants |-> <<>>,
     symbolTable |-> <<DefineBuiltins(NewSymbolTable, 1)>>,
     scopes |-> <<CompilationScope>>,
     scopeIdx |-> 0,
     heap |-> 0,
     rangeOrder |-> [i \in 1..MaxPairs |-> i],
     err |-> NoError]

\* the compiler in a run of the program in which the map iterations
\* deliver their keys in the given order
WithRangeOrder(c, order) == [c EXCEPT !.rangeOrder = order]

Scope(c) == c.scopes[c.scopeIdx + 1]
currentInstructions(c) == Scope(c).instructions
\* NewWithState dropping the state handed to it
NewWithStateFresh(s, consts) == New

\* compiler.NewWithState
NewWithState(s, consts) ==
    [New EXCEPT !.symbolTable = <<s>>, !.constants = consts]

CurrentTable(c) == c.symbolTable[Len(c.symbolTable)]

\* Compiler.addConstant; the index of the new constant is Len(c.constants)
addConstant(c, obj) == [c EXCEPT !.constants = Append(@, obj)]

\* allocation of a Go object by the compiler
Alloc(c) == [c EXCEPT !.heap = @ + 1]
NewId(c) == FirstHeapId + c.heap

\* Compiler.addInstruction
addInstruction(c, ins) ==
    [c EXCEPT !.scopes[c.scopeIdx + 1].instructions = @ \o ins]

\* Compiler.setLastInstruction
setLastInstruction(c, op, pos) ==
    [c EXCEPT !.scopes[c.scopeIdx + 1].prevInstruction = Scope(c).lastInstruction,
              !.scopes[c.scopeIdx + 1].lastInstruction = EmittedInstruction(op, pos)]

\* emit that hands the opcode alone to code.Make
emitOpcodeOnly(c, op, operands) ==
    setLastInstruction(addInstruction(c, Make(op, <<>>)), op,
                       Len(currentInstructions(c)))

\* Compiler.emit; the position returned is Len(currentInstructions(c))
emit(c, op, operands) ==
    setLastInstruction(addInstruction(c, Make(op, operands)), op,
                       Len(currentInstructions(c)))

\* Compiler.lastInstructionIs
lastInstructionIs(c, op) ==
    /\ Len(currentInstructions(c)) # 0
    /\ Scope(c).lastInstruction.Opcode = op

\* Compiler.removeLastInstruction
removeLastInstruction(c) ==
    [c EXCEPT !.scopes[c.scopeIdx + 1].instructions =
                    SubSeq(@, 1, Scope(c).lastInstruction.Position),
              !.scopes[c.scopeIdx + 1].lastInstruction = Scope(c).prevInstruction]

\* Compiler.replaceInstruction
replaceInstruction(c, pos, newInstruction) ==
    [c EXCEPT !.scopes[c.scopeIdx + 1].instructions =
        [i \in 1..Len(@) |->
            IF i - 1 >= pos /\ i - 1 < pos + Len(newInstruction)
            THEN newInstruction[i - pos] ELSE @[i]]]

\* Compiler.replaceLastInstruction
replaceLastInstruction(c, op) ==
    [replaceInstruction(c, Scope(c).lastInstruction.Position, Make(op, <<>>))
        EXCEPT !.scopes[c.scopeIdx + 1].lastInstruction.Opcode = op]

\* changeOperand patching the offset that follows the intended one
changeOperandNext(c, opPos, operand) ==
    replaceInstruction(c, opPos,
                       Make(currentInstructions(c)[opPos + 1], <<operand + 1>>))

\* Compiler.changeOperand
changeOperand(c, opPos, operand) ==
    replaceInstruction(c, opPos, Make(currentInstructions(c)[opPos + 1], <<operand>>))

\* NewEnclosedSymbolTable, as used by Compiler.enterScope
enterScope(c) ==
    [c EXCEPT !.scopes = Append(@, CompilationScope),
              !.scopeIdx = @ + 1,
              !.symbolTable = Append(@, NewSymbolTable)]

\* Compiler.leaveScope; the instructions returned are currentInstructions(c)
leaveScope(c) ==
    [c EXCEPT !.scopes = SubSeq(@, 1, Len(@) - 1),
              !.scopeIdx = @ - 1,
              !.symbolTable = SubSeq(@, 1, Len(@) - 1)]

\* Compiler.loadSymbol
loadSymbol(c, s) ==
    CASE s.Scope = GlobalScope -> emit(c, OpGetGlobal, <<s.Index>>)
      [] s.Scope = LocalScope -> emit(c, OpGetLocal, <<s.Index>>)
      [] s.Scope = BuiltinScope -> emit(c, OpGetBuiltin, <<s.Index>>)
      [] s.Scope = FreeScope -> emit(c, OpGetFree, <<s.Index>>)
      [] OTHER -> c

Fail(c, msg) == [c EXCEPT !.err = msg]

RECURSIVE Compile(_, _)
RECURSIVE CompileRange(_, _, _, _)
RECURSIVE CompilePairs(_, _, _)

\* the loop `for _, s := range nodes { err := c.Compile(s); if err != nil
\* { return err } }` over nodes[lo..hi]: the elements are compiled from
\* left to right and the first error ends the loop (the range is halved
\* only to keep the evaluation shallow)
CompileRange(c, nodes, lo, hi) ==
    IF lo > hi THEN c
    ELSE IF lo = hi THEN Compile(c, nodes[lo])
    ELSE LET mid == (lo + hi) \div 2
             c1 == CompileRange(c, nodes, lo, mid)
         IN IF c1.err # NoError THEN c1 ELSE CompileRange(c1, nodes, mid + 1, hi)

CompileAll(c, nodes) == CompileRange(c, nodes, 1, Len(nodes))

\* case *ast.ExpressionStatement
CompileExpressionStatement(c, node) ==
    LET c1 == Compile(c, node.Expression)
    IN IF c1.err # NoError THEN c1 ELSE emit(c1, OpPop, <<>>)

\* the opcode of an infix operator other than "<"; -1 for an unknown one
InfixOpcode(operator) ==
    CASE operator = "+" -> OpAdd
      [] operator = "-" -> OpSub
      [] operator = "*" -> OpMul
      [] operator = "/" -> OpDiv
      [] operator = ">" -> OpGreaterThan
      [] operator = "==" -> OpEqual
      [] operator = "!=" -> OpNotEqual
      [] OTHER -> -1

\* case *ast.InfixExpression
CompileInfixExpression(c, node) ==
    IF node.Operator = "<"
    THEN LET c1 == Compile(c, node.Right)
         IN IF c1.err # NoError THEN c1
            ELSE LET c2 == Compile(c1, node.Left)
                 IN IF c2.err # NoError THEN c2
                    ELSE emit(c2, OpGreaterThan, <<>>)
    ELSE LET c1 == Compile(c, node.Left)
         IN IF c1.err # NoError THEN c1
            ELSE LET c2 == Compile(c1, node.Right)
                 IN IF c2.err # NoError THEN c2
                    ELSE IF InfixOpcode(node.Operator) = -1
                         THEN Fail(c2, <<"unknown operator", node.Operator>>)
                         ELSE emit(c2, InfixOpcode(node.Operator), <<>>)

\* case *ast.PrefixExpression
CompilePrefixExpression(c, node) ==
    LET c1 == Compile(c, node.Right)
    IN IF c1.err # NoError THEN c1
       ELSE CASE node.Operator = "-" -> emit(c1, OpMinus, <<>>)
              [] node.Operator = "!" -> emit(c1, OpBang, <<>>)
              [] OTHER -> Fail(c1, <<"unknown prefix operator", node.Operator>>)

\* case *ast.IntegerLiteral
CompileIntegerLiteral(c, node) ==
    emit(addConstant(Alloc(c), Obj(INTEGER_OBJ, node.Value, NewId(c))),
         OpConstant, <<Len(c.constants)>>)

\* case *ast.StringLiteral
CompileStringLiteral(c, node) ==
    emit(addConstant(Alloc(c), Obj(STRING_OBJ, node.Value, NewId(c))),
         OpConstant, <<Len(c.constants)>>)

\* case *ast.Boolean
CompileBoolean(c, node) ==
    IF node.Value THEN emit(c, OpTrue, <<>>) ELSE emit(c, OpFalse, <<>>)

\* `if c.lastInstructionIs(code.OpPop) { c.removeLastInstruction() }`
DropTrailingPop(c) ==
    IF lastInstructionIs(c, OpPop) THEN removeLastInstruction(c) ELSE c

\* case *ast.IfExpression, from the emission of OpJump on; c2 is the
\* compiler after the consequence, jumpNotTruthyPos the position of the
\* conditional jump
CompileIfTail(c2, node, jumpNotTruthyPos) ==
    LET c3 == DropTrailingPop(c2)
        jumpPos == Len(currentInstructions(c3))
        c4 == emit(c3, OpJump, <<9999>>)
        afterConsequencePos == Len(currentInstructions(c4))
        c5 == changeOperand(c4, jumpNotTruthyPos, afterConsequencePos)
        c6 == IF node.Alternative.kind = "nil"
              THEN emit(c5, OpNull, <<>>)
              ELSE LET c7 == Compile(c5, node.Alternative)
                   IN IF c7.err # NoError THEN c7 ELSE DropTrailingPop(c7)
    IN IF c6.err # NoError THEN c6
       ELSE changeOperand(c6, jumpPos, Len(currentInstructions(c6)))

\* case *ast.IfExpression
CompileIfExpression(c, node) ==
    LET c1 == Compile(c, node.Condition)
    IN IF c1.err # NoError THEN c1
       ELSE LET jumpNotTruthyPos == Len(currentInstructions(c1))
                c2 == Compile(emit(c1, OpJumpNotTruthy, <<9999>>), node.Consequence)
            IN IF c2.err # NoError THEN c2
               ELSE CompileIfTail(c2, node, jumpNotTruthyPos)

\* case *ast.LetStatement
CompileLetStatement(c, node) ==
    LET c1 == Compile(c, node.Value)
    IN IF c1.err # NoError THEN c1
       ELSE LET symbol == DefinedSymbol(CurrentTable(c1), node.Name)
                c2 == [c1 EXCEPT !.symbolTable[Len(c1.symbolTable)] =
                                        Define(@, node.Name)]
            IN IF symbol.Scope = GlobalScope
               THEN emit(c2, OpSetGlobal, <<symbol.Index>>)
               ELSE emit(c2, OpSetLocal, <<symbol.Index>>)

\* case *ast.Identifier
CompileIdentifier(c, node) ==
    IF ~ResolveOk(CurrentTable(c), node.Value)
    THEN Fail(c, <<"undefined variable", node.Value>>)
    ELSE loadSymbol(c, Resolve(CurrentTable(c), node.Value))

\* case *ast.ArrayLiteral
CompileArrayLiteral(c, node) ==
    LET c1 == CompileAll(c, node.Elements)
    IN IF c1.err # NoError THEN c1
       ELSE emit(c1, OpArray, <<Len(node.Elements)>>)

\* `for k := range node.Pairs`: the Go runtime delivers the keys of a map
\* in an order of its choosing; an order is a permutation of 1..MaxPairs
\* (pairs beyond MaxPairs follow in the order of the sequence)
RangeOrders ==
    {o \in [1..MaxPairs -> 1..MaxPairs] :
        \A i, j \in 1..MaxPairs : i # j => o[i] # o[j]}

RangeOrder(pairs, order) ==
    LET n == Len(pairs)
        rank(i) == IF i <= MaxPairs THEN order[i] ELSE MaxPairs + i
    IN [k \in 1..n |->
          pairs[CHOOSE i \in 1..n :
                    Cardinality({j \in 1..n : rank(j) < rank(i)}) = k - 1]]

\* sort.Slice(keys, less by String()) applied to the pairs in the order
\* the map iteration delivered them (a slice of fewer than 12 elements is
\* sorted by insertion, which keeps that order for equal strings)
RECURSIVE InsertSorted(_, _)
InsertSorted(sorted, pair) ==
    IF sorted = <<>> THEN <<pair>>
    ELSE IF StringLess(NodeString(pair[1]), NodeString(sorted[Len(sorted)][1]))
         THEN Append(InsertSorted(SubSeq(sorted, 1, Len(sorted) - 1), pair),
                     sorted[Len(sorted)])
         ELSE Append(sorted, pair)

RECURSIVE SortPairs(_, _)
SortPairs(pairs, n) ==
    IF n = 0 THEN <<>> ELSE InsertSorted(SortPairs(pairs, n - 1), pairs[n])

\* the loop over the sorted keys: key, then node.Pairs[key]
CompilePairs(c, pairs, i) ==
    IF i > Len(pairs) THEN c
    ELSE LET c1 == Compile(c, pairs[i][1])
         IN IF c1.err # NoError THEN c1
            ELSE LET c2 == Compile(c1, pairs[i][2])
                 IN IF c2.err # NoError THEN c2
                    ELSE CompilePairs(c2, pairs, i + 1)

\* case *ast.HashLiteral
CompileHashLiteral(c, node) ==
    LET keys == RangeOrder(node.Pairs, c.rangeOrder)
        c1 == CompilePairs(c, SortPairs(keys, Len(keys)), 1)
    IN IF c1.err # NoError THEN c1
       ELSE emit(c1, OpHash, <<Len(node.Pairs) * 2>>)

\* case *ast.IndexExpression
CompileIndexExpression(c, node) ==
    LET c1 == Compile(c, node.Left)
    IN IF c1.err # NoError THEN c1
       ELSE LET c2 == Compile(c1, node.Index)
            IN IF c2.err # NoError THEN c2 ELSE emit(c2, OpIndex, <<>>)

\* `for _, p := range node.Parameters { c.symbolTable.Define(p.Value) }`
RECURSIVE DefineParameters(_, _, _)
DefineParameters(s, params, i) ==
    IF i > Len(params) THEN s
    ELSE DefineParameters(Define(s, params[i]), params, i + 1)

\* `for _, s := range freeSymbols { c.loadSymbol(s) }`
RECURSIVE LoadFreeSymbols(_, _, _)
LoadFreeSymbols(c, freeSymbols, i) ==
    IF i > Len(freeSymbols) THEN c
    ELSE LoadFreeSymbols(loadSymbol(c, freeSymbols[i]), freeSymbols, i + 1)

\* the return fix-up without the emission of OpReturn
FixReturnValueOnly(c) ==
    IF lastInstructionIs(c, OpPop) THEN replaceLastInstruction(c, OpReturnValue) ELSE c

\* the return fix-up: a trailing OpPop becomes OpReturnValue; a body not
\* ending in OpReturnValue gets OpReturn
FixReturn(c) ==
    LET c1 == IF lastInstructionIs(c, OpPop)
              THEN replaceLastInstruction(c, OpReturnValue) ELSE c
    IN IF ~lastInstructionIs(c1, OpReturnValue)
       THEN emit(c1, OpReturn, <<>>) ELSE c1

\* object.CompiledFunction
CompiledFunction(ins, numLocals, numParameters, id) ==
    Obj(COMPILED_FUNCTION_OBJ,
        [Instructions |-> ins, NumLocals |-> numLocals,
         NumParameters |-> numParameters], id)

\* case *ast.FunctionLiteral
CompileFunctionLiteral(c, node) ==
    LET c0 == enterScope(c)
        c1 == [c0 EXCEPT !.symbolTable[Len(c0.symbolTable)] =
                              DefineParameters(@, node.Parameters, 1)]
        c2 == Compile(c1, node.Body)
    IN IF c2.err # NoError THEN c2
       ELSE LET c3 == FixReturn(c2)
                freeSymbols == CurrentTable(c3).FreeSymbols
                numLocals == CurrentTable(c3).numDefinitions
                ins == currentInstructions(c3)
                c4 == LoadFreeSymbols(leaveScope(c3), freeSymbols, 1)
                compiledFn == CompiledFunction(ins, numLocals,
                                               Len(node.Parameters), NewId(c4))
            IN emit(addConstant(Alloc(c4), compiledFn), OpClosure,
                    <<Len(c4.constants), Len(freeSymbols)>>)

\* case *ast.ReturnStatement
\* the ReturnStatement case emitting the return without a value
CompileReturnStatementBare(c, node) ==
    LET c1 == Compile(c, node.ReturnValue)
    IN IF c1.err # NoError THEN c1 ELSE emit(c1, OpReturn, <<>>)

CompileReturnStatement(c, node) ==
    LET c1 == Compile(c, node.ReturnValue)
    IN IF c1.err # NoError THEN c1 ELSE emit(c1, OpReturnValue, <<>>)

\* case *ast.CallExpression
CompileCallExpression(c, node) ==
    LET c1 == Compile(c, node.Function)
    IN IF c1.err # NoError THEN c1
       ELSE LET c2 == CompileAll(c1, node.Arguments)
            IN IF c2.err # NoError THEN c2
               ELSE emit(c2, OpCall, <<Len(node.Arguments)>>)

\* Compiler.Compile
Compile(c, node) ==
    CASE node.kind = "Program" -> CompileAll(c, node.Statements)
      [] node.kind = "ExpressionStatement" -> CompileExpressionStatement(c, node)
      [] node.kind = "InfixExpression" -> CompileInfixExpression(c, node)
      [] node.kind = "PrefixExpression" -> CompilePrefixExpression(c, node)
      [] node.kind = "IntegerLiteral" -> CompileIntegerLiteral(c, node)
      [] node.kind = "StringLiteral" -> CompileStringLiteral(c, node)
      [] node.kind = "Boolean" -> CompileBoolean(c, node)
      [] node.kind = "IfExpression" -> CompileIfExpression(c, node)
      [] node.kind = "BlockStatement" -> CompileAll(c, node.Statements)
      [] node.kind = "LetStatement" -> CompileLetStatement(c, node)
      [] node.kind = "Identifier" -> CompileIdentifier(c, node)
      [] node.kind = "ArrayLiteral" -> CompileArrayLiteral(c, node)
      [] node.kind = "HashLiteral" -> CompileHashLiteral(c, node)
      [] node.kind = "IndexExpression" -> CompileIndexExpression(c, node)
      [] node.kind = "FunctionLiteral" -> CompileFunctionLiteral(c, node)
      [] node.kind = "ReturnStatement" -> CompileReturnStatement(c, node)
      [] node.kind = "CallExpression" -> CompileCallExpression(c, node)
      [] OTHER -> c

\* Compiler.Bytecode
Bytecode(c) == [Instructions |-> currentInstructions(c), Constants |-> c.constants]

----------------------------------------------------------------------------
(* The programs the model compiles and runs *)

ExprProgram(e) == Program(<<ExpressionStatement(e)>>)

Lits == [i \in 1..(MaxLit + 1) |-> IntegerLiteral(i - 1)]
ArithOps == <<"+", "-", "*", "/">>

\* every prefix "-" and infix expression over the operands in es
Grow(es) ==
    LET n == Len(es)
    IN es
       \o [i \in 1..n |-> PrefixExpression("-", es[i])]
       \o [i \in 1..(4 * n * n) |->
             InfixExpression(ArithOps[((i - 1) % 4) + 1],
                             es[(((i - 1) \div 4) % n) + 1],
                             es[((i - 1) \div (4 * n)) + 1])]

\* arithmetic expressions of nesting depth at most 2
ArithExprs == Grow(Grow(Lits))

ArithPrograms == [i \in 1..Len(ArithExprs) |-> ExprProgram(ArithExprs[i])]

\* a < b, a > b, a == b, a != b over the literals
CompareOps == <<"<", ">", "==", "!=">>
ComparePrograms ==
    LET n == Len(Lits)
    IN [i \in 1..(4 * n * n) |->
          ExprProgram(InfixExpression(CompareOps[((i - 1) % 4) + 1],
                                      Lits[(((i - 1) \div 4) % n) + 1],
                                      Lits[((i - 1) \div (4 * n)) + 1]))]

IntLit(n) == IntegerLiteral(n)
True_ == BooleanLiteral(TRUE)
False_ == BooleanLiteral(FALSE)
Block1(e) == BlockStatement(<<ExpressionStatement(e)>>)
EmptyBlock == BlockStatement(<<>>)
LetBlock == BlockStatement(<<LetStatement("x", IntLit(1))>>)

\* if-expressions: conditions true, false, 1 < 2, 1 > 2, 1; with and
\* without alternative; blocks ending in an expression statement, empty
\* blocks and blocks ending in a let statement
Conditions ==
    <<BooleanLiteral(TRUE), BooleanLiteral(FALSE),
      InfixExpression("<", IntLit(1), IntLit(2)), InfixExpression(">", IntLit(1), IntLit(2)),
      IntLit(1)>>
Blocks == <<Block1(IntLit(10)), Block1(IntLit(20)), EmptyBlock, LetBlock,
            BlockStatement(<<LetStatement("x", IntLit(1)), ExpressionStatement(IntLit(7))>>)>>
Alternatives == Blocks \o <<NoAlternative>>

IfExprs ==
    LET nc == Len(Conditions)
        nb == Len(Blocks)
        na == Len(Alternatives)
    IN [i \in 1..(nc * nb * na) |->
          IfExpression(Conditions[((i - 1) % nc) + 1],
                       Blocks[(((i - 1) \div nc) % nb) + 1],
                       Alternatives[((i - 1) \div (nc * nb)) + 1])]

IfPrograms == [i \in 1..Len(IfExprs) |-> ExprProgram(IfExprs[i])]

\* if ((if (false) {10})) {10} else {20}
NestedIfProgram ==
    ExprProgram(IfExpression(IfExpression(BooleanLiteral(FALSE), Block1(IntLit(10)),
                                          NoAlternative),
                             Block1(IntLit(10)), Block1(IntLit(20))))

\* an if-expression as the last statement of the consequence or of the
\* alternative of another one
NestedLastPrograms == <<
    \* if (true) { if (true) { 1 } }
    ExprProgram(IfExpression(True_,
        Block1(IfExpression(True_, Block1(IntLit(1)), NoAlternative)),
        NoAlternative)),
    \* if (false) { 1 } else { if (true) { 2 } }
    ExprProgram(IfExpression(False_, Block1(IntLit(1)),
        Block1(IfExpression(True_, Block1(IntLit(2)), NoAlternative)))),
    \* if (true) { if (false) { 1 } else { 2 } } else { 0 }
    ExprProgram(IfExpression(True_,
        Block1(IfExpression(False_, Block1(IntLit(1)), Block1(IntLit(2)))),
        Block1(IntLit(0))))
    >>

\* let newAdder = fn(a, b) { fn(c) { a + b + c } };
\* let adder = newAdder(1, 2); adder(8);
\* let t = 1 < 2; let n = if (false) { 1 }; [t, n, !t, {t: n}]
SingletonsProgram ==
    Program(<<
        LetStatement("t", InfixExpression("<", IntLit(1), IntLit(2))),
        LetStatement("n", IfExpression(BooleanLiteral(FALSE),
                                       Block1(IntLit(1)), NoAlternative)),
        ExpressionStatement(ArrayLiteral(<<
            Identifier("t"), Identifier("n"),
            PrefixExpression("!", Identifier("t")),
            HashLiteral(<<<<Identifier("t"), Identifier("n")>>>>)>>))>>)

\* {1: 10, true: 20} and a hash with keys of every hashable type
MixedKeysPrograms == <<
    ExprProgram(HashLiteral(<<<<IntLit(1), IntLit(10)>>,
                              <<BooleanLiteral(TRUE), IntLit(20)>>>>)),
    ExprProgram(HashLiteral(<<<<PrefixExpression("-", IntLit(1)), IntLit(30)>>,
                              <<IntLit(1), IntLit(10)>>,
                              <<IntLit(0), IntLit(40)>>,
                              <<BooleanLiteral(FALSE), IntLit(50)>>,
                              <<BooleanLiteral(TRUE), IntLit(20)>>,
                              <<StringLiteral("1"), IntLit(60)>>,
                              <<PrefixExpression("-", IntLit(2)), IntLit(70)>>>>))
    >>

\* programs of literals, prefix and infix operators, if and return
EvalPrograms == <<
    Program(<<ExpressionStatement(IfExpression(True_, EmptyBlock, NoAlternative)),
              ExpressionStatement(IntLit(5))>>),
    ExprProgram(IfExpression(False_, EmptyBlock, NoAlternative)),
    Program(<<ReturnStatement(IntLit(1)), ExpressionStatement(IntLit(2))>>),
    Program(<<ExpressionStatement(IntLit(1)),
              ReturnStatement(InfixExpression("+", IntLit(2), IntLit(3)))>>),
    ExprProgram(PrefixExpression("!",
        IfExpression(False_, Block1(IntLit(1)), NoAlternative))),
    ExprProgram(InfixExpression("==", IntLit(1), True_)),
    ExprProgram(InfixExpression("/",
        InfixExpression("*",
            PrefixExpression("-", InfixExpression("-", IntLit(1), IntLit(2))),
            IntLit(3)),
        IntLit(2))),
    ExprProgram(InfixExpression("!=",
        InfixExpression("<", IntLit(1), IntLit(2)),
        InfixExpression(">", IntLit(1), IntLit(2)))),
    ExprProgram(IfExpression(InfixExpression(">", IntLit(2), IntLit(1)),
                             Block1(IntLit(10)), Block1(IntLit(20))))
    >>

\* fn(a) { fn() { a + a } }
CaptureTwiceProgram ==
    ExprProgram(FunctionLiteral(<<"a">>,
        Block1(FunctionLiteral(<<>>, Block1(
            InfixExpression("+", Identifier("a"), Identifier("a")))))))

NewAdderProgram ==
    Program(<<
        LetStatement("newAdder",
            FunctionLiteral(<<"a", "b">>,
                Block1(FunctionLiteral(<<"c">>,
                    Block1(InfixExpression("+",
                        InfixExpression("+", Identifier("a"), Identifier("b")),
                        Identifier("c"))))))),
        LetStatement("adder",
            CallExpression(Identifier("newAdder"), <<IntLit(1), IntLit(2)>>)),
        ExpressionStatement(CallExpression(Identifier("adder"), <<IntLit(8)>>))>>)

\* let countDown = fn(x) { if (x == 0) { return 0; }
\*                         else { countDown(x - 1); } }; countDown(1);
CountDownProgram ==
    Program(<<
        LetStatement("countDown",
            FunctionLiteral(<<"x">>,
                Block1(IfExpression(
                    InfixExpression("==", Identifier("x"), IntLit(0)),
                    BlockStatement(<<ReturnStatement(IntLit(0))>>),
                    Block1(CallExpression(Identifier("countDown"),
                        <<InfixExpression("-", Identifier("x"), IntLit(1))>>)))))),
        ExpressionStatement(CallExpression(Identifier("countDown"), <<IntLit(1)>>))>>)

Call0(f) == CallExpression(f, <<>>)
Fn0(stmts) == FunctionLiteral(<<>>, BlockStatement(stmts))

\* fn() { }()
EmptyFunctionProgram == ExprProgram(Call0(Fn0(<<>>)))

\* fn() { true == if (true) { return false; } }
EarlyReturnFunction ==
    Fn0(<<ExpressionStatement(InfixExpression("==", True_,
        IfExpression(True_, BlockStatement(<<ReturnStatement(False_)>>),
                     NoAlternative)))>>)

\* fn() { true == if (true) { return false; } }() == true
EarlyReturnProgram == ExprProgram(InfixExpression("==", Call0(EarlyReturnFunction), True_))

\* true(true, true, true, true, fn() { })
ArgumentsProgram ==
    ExprProgram(CallExpression(True_, <<True_, True_, True_, True_, Fn0(<<>>)>>))

\* true(true, true, true, true, fn() { true == if (true) { return false; } })
EarlyReturnArgumentsProgram ==
    ExprProgram(CallExpression(True_, <<True_, True_, True_, True_, EarlyReturnFunction>>))

\* if (true) { }
EmptyIfProgram == ExprProgram(IfExpression(True_, EmptyBlock, NoAlternative))

\* return 1;
TopLevelReturnProgram == Program(<<ReturnStatement(IntLit(1))>>)

\* programs with function literals and calls
CallPrograms == <<
    \* fn() { true }()
    ExprProgram(Call0(Fn0(<<ExpressionStatement(True_)>>))),
    \* fn() { return false; }()
    ExprProgram(Call0(Fn0(<<ReturnStatement(False_)>>))),
    \* let f = fn() { true }; f();
    Program(<<LetStatement("f", Fn0(<<ExpressionStatement(True_)>>)),
              ExpressionStatement(Call0(Identifier("f")))>>),
    \* fn(x) { x }(true)
    ExprProgram(CallExpression(
        FunctionLiteral(<<"x">>, Block1(Identifier("x"))), <<True_>>)),
    \* fn() { 1 }
    ExprProgram(Fn0(<<ExpressionStatement(IntLit(1))>>)),
    \* 1; fn() { }()
    Program(<<ExpressionStatement(IntLit(1)), ExpressionStatement(Call0(Fn0(<<>>)))>>),
    \* 1()
    ExprProgram(Call0(IntLit(1))),
    \* fn() { }() + 1
    ExprProgram(InfixExpression("+", Call0(Fn0(<<>>)), IntLit(1))),
    \* [fn() { true }(), 5]
    ExprProgram(ArrayLiteral(<<Call0(Fn0(<<ExpressionStatement(True_)>>)), IntLit(5)>>))
    >>

\* (5 + 10 * 2 + 15 / 3) * 2 + -10
ArithmeticExample ==
    ExprProgram(InfixExpression("+",
        InfixExpression("*",
            InfixExpression("+",
                InfixExpression("+", IntLit(5), InfixExpression("*", IntLit(10), IntLit(2))),
                InfixExpression("/", IntLit(15), IntLit(3))),
            IntLit(2)),
        PrefixExpression("-", IntLit(10))))

\* other statements and expressions
MiscPrograms == <<
    Program(<<>>),
    \* let x = 5; x + 1;
    Program(<<LetStatement("x", IntLit(5)),
              ExpressionStatement(InfixExpression("+", Identifier("x"), IntLit(1)))>>),
    \* y
    ExprProgram(Identifier("y")),
    \* len
    ExprProgram(Identifier("len")),
    \* !true, !5, !!false, -true
    ExprProgram(PrefixExpression("!", True_)),
    ExprProgram(PrefixExpression("!", IntLit(5))),
    ExprProgram(PrefixExpression("!", PrefixExpression("!", False_))),
    ExprProgram(PrefixExpression("-", True_)),
    \* !(if (false) { 5; })
    ExprProgram(PrefixExpression("!",
        IfExpression(False_, Block1(IntLit(5)), NoAlternative))),
    \* true == true, true != false, (1 < 2) == true, true > false, 1 + true
    ExprProgram(InfixExpression("==", True_, True_)),
    ExprProgram(InfixExpression("!=", True_, False_)),
    ExprProgram(InfixExpression("==", InfixExpression("<", IntLit(1), IntLit(2)), True_)),
    ExprProgram(InfixExpression(">", True_, False_)),
    ExprProgram(InfixExpression("+", IntLit(1), True_)),
    \* "a" + "b", "a" - "b", "a" == "a"
    ExprProgram(InfixExpression("+", StringLiteral("a"), StringLiteral("b"))),
    ExprProgram(InfixExpression("-", StringLiteral("a"), StringLiteral("b"))),
    ExprProgram(InfixExpression("==", StringLiteral("a"), StringLiteral("a"))),
    \* [1, 2, 3][1], [1][5], [][0], 1[0]
    ExprProgram(IndexExpression(ArrayLiteral(<<IntLit(1), IntLit(2), IntLit(3)>>), IntLit(1))),
    ExprProgram(IndexExpression(ArrayLiteral(<<IntLit(1)>>), IntLit(5))),
    ExprProgram(IndexExpression(ArrayLiteral(<<>>), IntLit(0))),
    ExprProgram(IndexExpression(IntLit(1), IntLit(0))),
    \* {"one": 1, "two": 2}["two"], {1: 2}[3], {}, {[]: 1}, {1: 2}[[]]
    ExprProgram(IndexExpression(
        HashLiteral(<<<<StringLiteral("one"), IntLit(1)>>,
                      <<StringLiteral("two"), IntLit(2)>>>>), StringLiteral("two"))),
    ExprProgram(IndexExpression(HashLiteral(<<<<IntLit(1), IntLit(2)>>>>), IntLit(3))),
    ExprProgram(HashLiteral(<<>>)),
    ExprProgram(HashLiteral(<<<<ArrayLiteral(<<>>), IntLit(1)>>>>)),
    ExprProgram(IndexExpression(HashLiteral(<<<<IntLit(1), IntLit(2)>>>>),
                                ArrayLiteral(<<>>))),
    \* [true, false][1]
    ExprProgram(IndexExpression(ArrayLiteral(<<True_, False_>>), IntLit(1)))
    >>

\* {1: 2, 1: 0}[1]: two key nodes with the same string form
EqualKeysProgram ==
    ExprProgram(IndexExpression(
        HashLiteral(<<<<IntLit(1), IntLit(2)>>, <<IntLit(1), IntLit(0)>>>>),
        IntLit(1)))

\* [true, true, ... (StackSize times), {}]: the hash literal is built
\* when the stack is full
FullStackProgram ==
    ExprProgram(ArrayLiteral(
        [i \in 1..(StackSize + 1) |->
            IF i <= StackSize THEN True_ ELSE HashLiteral(<<>>)]))

\* let g = fn(f) { f() }; g();  (inside the body f is global 0, which
\* holds g when the body runs: g calls itself without end)
RecursionProgram ==
    Program(<<LetStatement("g", FunctionLiteral(<<"f">>, Block1(Call0(Identifier("f"))))),
              ExpressionStatement(Call0(Identifier("g")))>>)

\* fn(x) { true }()  (one parameter, no argument)
ArityProgram ==
    ExprProgram(Call0(FunctionLiteral(<<"x">>, Block1(True_))))

\* true(fn() { true })  (the callee is a Boolean, the argument a function)
NonFunctionCalleeProgram ==
    ExprProgram(CallExpression(True_, <<Fn0(<<ExpressionStatement(True_)>>)>>))

\* function literals by the last statement of the body
FunctionBodyPrograms == <<
    \* fn() { let a = 1; }()
    ExprProgram(Call0(Fn0(<<LetStatement("a", IntLit(1))>>))),
    \* fn() { if (true) { 1 } }()
    ExprProgram(Call0(Fn0(<<ExpressionStatement(
        IfExpression(True_, Block1(IntLit(1)), NoAlternative))>>))),
    \* fn() { if (false) { 1 } else { return 2; } }()
    ExprProgram(Call0(Fn0(<<ExpressionStatement(
        IfExpression(False_, Block1(IntLit(1)),
                     BlockStatement(<<ReturnStatement(IntLit(2))>>)))>>)))
    >>

\* index expressions on arrays: [1][-1], [1][1], [1, 2][0], [1, 2][2],
\* [][-1], [[]][0]
ArrayIndexPrograms == <<
    ExprProgram(IndexExpression(ArrayLiteral(<<IntLit(1)>>), PrefixExpression("-", IntLit(1)))),
    ExprProgram(IndexExpression(ArrayLiteral(<<IntLit(1)>>), IntLit(1))),
    ExprProgram(IndexExpression(ArrayLiteral(<<IntLit(1), IntLit(2)>>), IntLit(0))),
    ExprProgram(IndexExpression(ArrayLiteral(<<IntLit(1), IntLit(2)>>), IntLit(2))),
    ExprProgram(IndexExpression(ArrayLiteral(<<>>), PrefixExpression("-", IntLit(1)))),
    ExprProgram(IndexExpression(ArrayLiteral(<<ArrayLiteral(<<>>)>>), IntLit(0)))
    >>

\* index expressions on hashes and on other values: {1: 2}[1],
\* {true: 2}[1 > 2], {"a": 1}["b"], {1: 2}[{}], {1: 2}[if (false) { 1 }],
\* true[0], "a"[0], {}[0], {1: 2, 1: 0, 2: 1}[2]
HashIndexPrograms == <<
    ExprProgram(IndexExpression(HashLiteral(<<<<IntLit(1), IntLit(2)>>>>), IntLit(1))),
    ExprProgram(IndexExpression(HashLiteral(<<<<True_, IntLit(2)>>>>),
                                InfixExpression(">", IntLit(1), IntLit(2)))),
    ExprProgram(IndexExpression(HashLiteral(<<<<StringLiteral("a"), IntLit(1)>>>>),
                                StringLiteral("b"))),
    ExprProgram(IndexExpression(HashLiteral(<<<<IntLit(1), IntLit(2)>>>>),
                                HashLiteral(<<>>))),
    ExprProgram(IndexExpression(HashLiteral(<<<<IntLit(1), IntLit(2)>>>>),
                                IfExpression(False_, Block1(IntLit(1)), NoAlternative))),
    ExprProgram(IndexExpression(True_, IntLit(0))),
    ExprProgram(IndexExpression(StringLiteral("a"), IntLit(0))),
    ExprProgram(IndexExpression(HashLiteral(<<>>), IntLit(0))),
    ExprProgram(IndexExpression(
        HashLiteral(<<<<IntLit(1), IntLit(2)>>, <<IntLit(2), IntLit(1)>>>>), IntLit(2)))
    >>

\* hash literals with keys that are not hashable: {{}: 1}, {1: 2, []: 3},
\* {if (false) { 1 }: 2}
HashKeyPrograms == <<
    ExprProgram(HashLiteral(<<<<HashLiteral(<<>>), IntLit(1)>>>>)),
    ExprProgram(HashLiteral(<<<<IntLit(1), IntLit(2)>>, <<ArrayLiteral(<<>>), IntLit(3)>>>>)),
    ExprProgram(HashLiteral(<<<<IfExpression(False_, Block1(IntLit(1)), NoAlternative),
                               IntLit(2)>>>>))
    >>

\* conditions and operands of `!` that are neither Boolean nor Null, and
\* Null ones: !0, !"", ![], !{}, if (0) { 10 }, if ("") { 10 },
\* if ([]) { 10 }, if (if (false) { 1 }) { 10 } else { 20 }, !fn() { }
TruthyPrograms == <<
    ExprProgram(PrefixExpression("!", IntLit(0))),
    ExprProgram(PrefixExpression("!", StringLiteral(""))),
    ExprProgram(PrefixExpression("!", ArrayLiteral(<<>>))),
    ExprProgram(PrefixExpression("!", HashLiteral(<<>>))),
    ExprProgram(IfExpression(IntLit(0), Block1(IntLit(10)), NoAlternative)),
    ExprProgram(IfExpression(StringLiteral(""), Block1(IntLit(10)), NoAlternative)),
    ExprProgram(IfExpression(ArrayLiteral(<<>>), Block1(IntLit(10)), NoAlternative)),
    ExprProgram(IfExpression(IfExpression(False_, Block1(IntLit(1)), NoAlternative),
                             Block1(IntLit(10)), Block1(IntLit(20))))
    >>

\* comparisons of operands that are not both Integers: 1 == true,
\* "a" != "a", [] == [], null == null, true == (1 < 2), false != false,
\* let s = "a"; s == s, "a" == "b", "a" > "b"
IdentityPrograms == <<
    ExprProgram(InfixExpression("==", IntLit(1), True_)),
    ExprProgram(InfixExpression("!=", StringLiteral("a"), StringLiteral("a"))),
    ExprProgram(InfixExpression("==", ArrayLiteral(<<>>), ArrayLiteral(<<>>))),
    ExprProgram(InfixExpression("==",
        IfExpression(False_, Block1(IntLit(1)), NoAlternative),
        IfExpression(False_, Block1(IntLit(1)), NoAlternative))),
    ExprProgram(InfixExpression("==", True_, InfixExpression("<", IntLit(1), IntLit(2)))),
    ExprProgram(InfixExpression("!=", False_, False_)),
    Program(<<LetStatement("s", StringLiteral("a")),
              ExpressionStatement(InfixExpression("==", Identifier("s"), Identifier("s")))>>),
    ExprProgram(InfixExpression("==", StringLiteral("a"), StringLiteral("b"))),
    ExprProgram(InfixExpression(">", StringLiteral("a"), StringLiteral("b")))
    >>

\* arithmetic on operands it is not defined for: "a" * "b", "a" / "b",
\* true + true, "a" + 1, 1 - "a", [] + [], -"a", -true, -[], "b" + "a",
\* (if (false) { 1 }) + 1
TypeErrorPrograms == <<
    ExprProgram(InfixExpression("*", StringLiteral("a"), StringLiteral("b"))),
    ExprProgram(InfixExpression("/", StringLiteral("a"), StringLiteral("b"))),
    ExprProgram(InfixExpression("+", True_, True_)),
    ExprProgram(InfixExpression("+", StringLiteral("a"), IntLit(1))),
    ExprProgram(InfixExpression("-", IntLit(1), StringLiteral("a"))),
    ExprProgram(InfixExpression("+", ArrayLiteral(<<>>), ArrayLiteral(<<>>))),
    ExprProgram(PrefixExpression("-", StringLiteral("a"))),
    ExprProgram(PrefixExpression("-", True_)),
    ExprProgram(PrefixExpression("-", ArrayLiteral(<<>>))),
    ExprProgram(InfixExpression("+", StringLiteral("b"), StringLiteral("a"))),
    ExprProgram(InfixExpression("+",
        IfExpression(False_, Block1(IntLit(1)), NoAlternative), IntLit(1)))
    >>

\* the largest Integer, and the smallest one written as -MaxInt - 1
MaxInt == IntLit(HalfWord - 1)
MinInt == InfixExpression("-", PrefixExpression("-", MaxInt), IntLit(1))

\* Integer arithmetic that leaves the range: MaxInt + 1, MinInt - 1,
\* MaxInt * 2, -MinInt, MinInt * -1, MaxInt + MaxInt, MinInt + MinInt,
\* MinInt / -1, -MaxInt
OverflowPrograms == <<
    ExprProgram(InfixExpression("+", MaxInt, IntLit(1))),
    ExprProgram(InfixExpression("-", MinInt, IntLit(1))),
    ExprProgram(InfixExpression("*", MaxInt, IntLit(2))),
    ExprProgram(PrefixExpression("-", MinInt)),
    ExprProgram(InfixExpression("*", MinInt, PrefixExpression("-", IntLit(1)))),
    ExprProgram(InfixExpression("+", MaxInt, MaxInt)),
    ExprProgram(InfixExpression("+", MinInt, MinInt)),
    ExprProgram(InfixExpression("/", MinInt, PrefixExpression("-", IntLit(1)))),
    ExprProgram(PrefixExpression("-", MaxInt))
    >>

\* programs with an identifier no scope defines: let x = x;
\* let a = 1; b; let c = 2;   fn() { z }   let x = 1; let x = x; x;
\* fn(p) { p; q; 7 }   1 < w   2 + w   len; nope; 3   [1, v, 2]
UndefinedPrograms == <<
    Program(<<LetStatement("x", Identifier("x"))>>),
    Program(<<LetStatement("a", IntLit(1)),
              ExpressionStatement(Identifier("b")),
              LetStatement("c", IntLit(2))>>),
    ExprProgram(FunctionLiteral(<<>>, BlockStatement(<<ExpressionStatement(Identifier("z"))>>))),
    Program(<<LetStatement("x", IntLit(1)),
              LetStatement("x", Identifier("x")),
              ExpressionStatement(Identifier("x"))>>),
    ExprProgram(FunctionLiteral(<<"p">>, BlockStatement(<<
        ExpressionStatement(Identifier("p")),
        ExpressionStatement(Identifier("q")),
        ExpressionStatement(IntLit(7))>>))),
    ExprProgram(InfixExpression("<", IntLit(1), Identifier("w"))),
    ExprProgram(InfixExpression("+", IntLit(2), Identifier("w"))),
    Program(<<ExpressionStatement(Identifier("len")),
              ExpressionStatement(Identifier("nope")),
              ExpressionStatement(IntLit(3))>>),
    ExprProgram(ArrayLiteral(<<IntLit(1), Identifier("v"), IntLit(2)>>))
    >>

\* an identifier of the global scope used in a function body before an
\* identifier no scope defines: let g = 1; fn() { g; zz }
EnclosingThenUndefinedProgram ==
    Program(<<LetStatement("g", IntLit(1)),
              ExpressionStatement(FunctionLiteral(<<>>, BlockStatement(<<
                  ExpressionStatement(Identifier("g")),
                  ExpressionStatement(Identifier("zz"))>>)))>>)

\* the programs of one family, each with the family's name
Named(name, asts) == [i \in 1..Len(asts) |-> [name |-> name, ast |-> asts[i]]]

Programs ==
    Named("fullStack", <<FullStackProgram>>)
    \o Named("arithmeticExample", <<ArithmeticExample>>)
    \o Named("newAdder", <<NewAdderProgram>>)
    \o Named("countDown", <<CountDownProgram>>)
    \o Named("emptyFunction", <<EmptyFunctionProgram>>)
    \o Named("earlyReturn", <<EarlyReturnProgram>>)
    \o Named("arguments", <<ArgumentsProgram>>)
    \o Named("earlyReturnArguments", <<EarlyReturnArgumentsProgram>>)
    \o Named("emptyIf", <<EmptyIfProgram>>)
    \o Named("topLevelReturn", <<TopLevelReturnProgram>>)
    \o Named("nestedIf", <<NestedIfProgram>>)
    \o Named("arrayIndex", ArrayIndexPrograms)
    \o Named("hashIndex", HashIndexPrograms)
    \o Named("hashKey", HashKeyPrograms)
    \o Named("truthy", TruthyPrograms)
    \o Named("undefined", UndefinedPrograms)
    \o Named("enclosingThenUndefined", <<EnclosingThenUndefinedProgram>>)
    \o Named("identity", IdentityPrograms)
    \o Named("typeError", TypeErrorPrograms)
    \o Named("overflow", OverflowPrograms)
    \o Named("equalKeys", <<EqualKeysProgram>>)
    \o Named("nestedLast", NestedLastPrograms)
    \o Named("recursion", <<RecursionProgram>>)
    \o Named("arity", <<ArityProgram>>)
    \o Named("nonFunctionCallee", <<NonFunctionCalleeProgram>>)
    \o Named("functionBody", FunctionBodyPrograms)
    \o Named("arith", ArithPrograms)
    \o Named("compare", ComparePrograms)
    \o Named("if", IfPrograms)
    \o Named("call", CallPrograms)
    \o Named("misc", MiscPrograms)
    \o Named("captureTwice", <<CaptureTwiceProgram>>)
    \o Named("singletons", <<SingletonsProgram>>)
    \o Named("mixedKeys", MixedKeysPrograms)
    \o Named("eval", EvalPrograms)

----------------------------------------------------------------------------
(* package vm.  A VM value v carries the fields of the VM struct, the      *)
(* outcome of the run so far (status, err) and `pending`, the local        *)
(* variable err of Run inside one loop iteration.                          *)

\* a frame holds a pointer to its CompiledFunction, which is mainFn or an
\* object of the constants pool: the identity stands for the pointer
Deref(id) ==
    IF id = mainFn.id THEN mainFn
    ELSE constants[CHOOSE i \in 1..Len(constants) : constants[i].id = id]

\* vm.NewFrame
NewFrame(fn) == [fn |-> fn.id, ip |-> -1]

\* Frame.Instructions
Instructions(f) == Deref(f.fn).val.Instructions

\* VM.currentFrame (fp >= 1)
currentFrame(v) == v.frames[v.fp]

\* vm.stack[i], 0-based; a slot never written holds nil
StackAt(v, i) == IF i < Len(v.stack) THEN v.stack[i + 1] ELSE Nil

\* vm.stack[i] = o, for i at most the high-water mark
StackPut(v, i, o) ==
    IF i < Len(v.stack) THEN [v EXCEPT !.stack[i + 1] = o]
    ELSE [v EXCEPT !.stack = Append(@, o)]

\* vm.globals[i], 0-based; a slot never written holds nil
GlobalAt(v, i) == IF i < Len(v.globals) THEN v.globals[i + 1] ELSE Nil

\* vm.globals[i] = o
GlobalPut(v, i, o) ==
    [v EXCEPT !.globals =
        [k \in 1..(IF i + 1 > Len(@) THEN i + 1 ELSE Len(@)) |->
            IF k = i + 1 THEN o ELSE IF k <= Len(@) THEN @[k] ELSE Nil]]

\* a Go run-time panic (index out of range, nil dereference, division by
\* zero): Run neither returns nil nor an error
IndexOutOfRange == "index out of range"
NilDereference == "nil pointer dereference"
DivideByZero == "integer divide by zero"
Panic(v, cause) == [v EXCEPT !.status = "panicked", !.pending = <<"panic", cause>>]
Ok(v) == v.status = "running" /\ v.pending = NoError

\* `return fmt.Errorf(...)` reaching the end of the loop body, or returned
\* from Run directly
Errorf(v, e) == [v EXCEPT !.pending = e]

\* VM.push
push(v, o) ==
    IF v.sp >= StackSize THEN Errorf(v, <<"STACK OVERFLOW">>)
    ELSE [StackPut(v, v.sp, o) EXCEPT !.sp = @ + 1]

\* VM.pop: the object returned
Top(v) == StackAt(v, v.sp - 1)

\* VM.pop: the VM afterwards
pop(v) == IF v.sp - 1 < 0 THEN Panic(v, IndexOutOfRange) ELSE [v EXCEPT !.sp = @ - 1]

\* vm.currentFrame().ip = ip
SetIp(v, ip) == [v EXCEPT !.frames[v.fp].ip = ip]

\* allocation of a Go object by the VM
NewObj(v, t, val) == Obj(t, val, FirstHeapId + v.heap)
AllocVM(v) == [v EXCEPT !.heap = @ + 1]

\* vm.nativeBoolToBooleanObject
\* nativeBoolToBooleanObject making a Boolean of its own at every call
nativeBoolToBooleanObjectFresh(b) == Obj(BOOLEAN_OBJ, b, 0)
nativeBoolToBooleanObject(b) == IF b THEN True ELSE False

\* vm.isTruthy
\* isTruthy taking the Integer 0 for falsy as well
isTruthyNonZero(obj) ==
    CASE obj.type = BOOLEAN_OBJ -> obj.val
      [] obj.type = NULL_OBJ -> FALSE
      [] obj.type = INTEGER_OBJ -> obj.val # 0
      [] OTHER -> TRUE

isTruthy(obj) ==
    CASE obj.type = BOOLEAN_OBJ -> obj.val
      [] obj.type = NULL_OBJ -> FALSE
      [] OTHER -> TRUE

\* VM.executeBangOperator, after the pop
BangResult(operand) ==
    CASE operand.id = True.id -> False
      [] operand.id = False.id -> True
      [] operand.id = Null.id -> True
      [] OTHER -> False

\* VM.executeBangOperator
executeBangOperator(v) ==
    LET v1 == pop(v)
    IN IF ~Ok(v1) THEN v1 ELSE push(v1, BangResult(Top(v)))

\* VM.executeMinusOperator
\* executeMinusOperator with the negation left outside the Integer range
executeMinusOperatorUnbounded(v) ==
    LET v1 == pop(v)
        operand == Top(v)
    IN IF ~Ok(v1) THEN v1
       ELSE IF operand.type = "nil" THEN Panic(v1, NilDereference)
       ELSE IF operand.type # INTEGER_OBJ
            THEN Errorf(v1, <<"unsupported type for negation", operand.type>>)
       ELSE push(AllocVM(v1), NewObj(v1, INTEGER_OBJ, -operand.val))

executeMinusOperator(v) ==
    LET v1 == pop(v)
        operand == Top(v)
    IN IF ~Ok(v1) THEN v1
       ELSE IF operand.type = "nil" THEN Panic(v1, NilDereference)
       ELSE IF operand.type # INTEGER_OBJ
            THEN Errorf(v1, <<"unsupported type for negation", operand.type>>)
       ELSE push(AllocVM(v1), NewObj(v1, INTEGER_OBJ, Wrap64(-operand.val)))

\* executeBinaryIntegerOperation with the operands taken in the wrong order
executeBinaryIntegerOperationSwapped(v, op, left, right) ==
    CASE op = OpAdd ->
            push(AllocVM(v), NewObj(v, INTEGER_OBJ, Wrap64(right.val + left.val)))
      [] op = OpSub ->
            push(AllocVM(v), NewObj(v, INTEGER_OBJ, Wrap64(right.val - left.val)))
      [] op = OpMul ->
            push(AllocVM(v), NewObj(v, INTEGER_OBJ, Wrap64(right.val * left.val)))
      [] op = OpDiv ->
            IF left.val = 0 THEN Panic(v, DivideByZero)
            ELSE push(AllocVM(v),
                      NewObj(v, INTEGER_OBJ, Wrap64(GoDiv(right.val, left.val))))
      [] OTHER -> Errorf(v, <<"unknown integer operater", op>>)

\* VM.executeBinaryIntegerOperation
executeBinaryIntegerOperation(v, op, left, right) ==
    CASE op = OpAdd ->
            push(AllocVM(v), NewObj(v, INTEGER_OBJ, Wrap64(left.val + right.val)))
      [] op = OpSub ->
            push(AllocVM(v), NewObj(v, INTEGER_OBJ, Wrap64(left.val - right.val)))
      [] op = OpMul ->
            push(AllocVM(v), NewObj(v, INTEGER_OBJ, Wrap64(left.val * right.val)))
      [] op = OpDiv ->
            IF right.val = 0 THEN Panic(v, DivideByZero)
            ELSE push(AllocVM(v),
                      NewObj(v, INTEGER_OBJ, Wrap64(GoDiv(left.val, right.val))))
      [] OTHER -> Errorf(v, <<"unknown integer operater", op>>)

\* VM.executeBinaryStringOperation
\* executeBinaryStringOperation concatenating whatever the operator
executeBinaryStringOperationAnyOp(v, op, left, right) ==
    push(AllocVM(v), NewObj(v, STRING_OBJ, left.val \o right.val))

executeBinaryStringOperation(v, op, left, right) ==
    IF op = OpAdd
    THEN push(AllocVM(v), NewObj(v, STRING_OBJ, left.val \o right.val))
    ELSE Errorf(v, <<"unknown string operater", op>>)

\* VM.executeBinaryOperation
executeBinaryOperation(v, op) ==
    LET v1 == pop(v)
        right == Top(v)
        v2 == pop(v1)
        left == Top(v1)
    IN IF ~Ok(v1) THEN v1
       ELSE IF ~Ok(v2) THEN v2
       ELSE IF right.type = "nil" \/ left.type = "nil" THEN Panic(v2, NilDereference)
       ELSE IF left.type = INTEGER_OBJ /\ right.type = INTEGER_OBJ
            THEN executeBinaryIntegerOperation(v2, op, left, right)
       ELSE IF left.type = STRING_OBJ /\ right.type = STRING_OBJ
            THEN executeBinaryStringOperation(v2, op, left, right)
       ELSE Errorf(v2, <<"unsupported types for binary operation",
                        left.type, right.type>>)

\* executeIntegerComparison with OpGreaterThan as "greater than or equal"
executeIntegerComparisonOrEqual(v, op, left, right) ==
    CASE op = OpEqual -> push(v, nativeBoolToBooleanObject(left.val = right.val))
      [] op = OpNotEqual -> push(v, nativeBoolToBooleanObject(left.val # right.val))
      [] op = OpGreaterThan -> push(v, nativeBoolToBooleanObject(left.val >= right.val))
      [] OTHER -> Errorf(v, <<"unknown integer operater", op>>)

\* VM.executeIntegerComparison
executeIntegerComparison(v, op, left, right) ==
    CASE op = OpEqual -> push(v, nativeBoolToBooleanObject(left.val = right.val))
      [] op = OpNotEqual -> push(v, nativeBoolToBooleanObject(left.val # right.val))
      [] op = OpGreaterThan -> push(v, nativeBoolToBooleanObject(left.val > right.val))
      [] OTHER -> Errorf(v, <<"unknown integer operater", op>>)

\* VM.executeComparison
\* executeComparison comparing the operands' types and values
executeComparisonByValue(v, op) ==
    LET v1 == pop(v)
        right == Top(v)
        v2 == pop(v1)
        left == Top(v1)
        equal == IF left.type = right.type THEN left.val = right.val ELSE FALSE
    IN IF ~Ok(v1) THEN v1
       ELSE IF ~Ok(v2) THEN v2
       ELSE IF right.type = "nil" \/ left.type = "nil" THEN Panic(v2, NilDereference)
       ELSE IF left.type = INTEGER_OBJ /\ right.type = INTEGER_OBJ
            THEN executeIntegerComparison(v2, op, left, right)
       ELSE CASE op = OpEqual -> push(v2, nativeBoolToBooleanObject(equal))
              [] op = OpNotEqual -> push(v2, nativeBoolToBooleanObject(~equal))
              [] OTHER -> Errorf(v2, <<"unknown operator", op, left.type, right.type>>)

executeComparison(v, op) ==
    LET v1 == pop(v)
        right == Top(v)
        v2 == pop(v1)
        left == Top(v1)
    IN IF ~Ok(v1) THEN v1
       ELSE IF ~Ok(v2) THEN v2
       ELSE IF right.type = "nil" \/ left.type = "nil" THEN Panic(v2, NilDereference)
       ELSE IF left.type = INTEGER_OBJ /\ right.type = INTEGER_OBJ
            THEN executeIntegerComparison(v2, op, left, right)
       ELSE CASE op = OpEqual ->
                    push(v2, nativeBoolToBooleanObject(right.id = left.id))
              [] op = OpNotEqual ->
                    push(v2, nativeBoolToBooleanObject(right.id # left.id))
              [] OTHER -> Errorf(v2, <<"unknown operator", op, left.type, right.type>>)

\* object.Hashable: Integer, Boolean and String have a HashKey method
Hashable(obj) == obj.type \in {INTEGER_OBJ, BOOLEAN_OBJ, STRING_OBJ}

\* bitwise exclusive or of two naturals
RECURSIVE BitXor(_, _)
BitXor(a, b) ==
    IF a = 0 THEN b
    ELSE IF b = 0 THEN a
    ELSE 2 * BitXor(a \div 2, b \div 2) + (((a % 2) + (b % 2)) % 2)

\* hash/fnv New64a: the offset basis 0xcbf29ce484222325 and the prime
\* 0x100000001b3, each reduced to the word of the model (the low bits of
\* the hash depend on the low bits of these only)
offset64 == 69345061 % (2 * HalfWord)
prime64 == 435 % (2 * HalfWord)

\* h.Write(bytes); h.Sum64(): for each byte, xor then multiply
RECURSIVE Fnv64a(_, _)
Fnv64a(h, bytes) ==
    IF bytes = <<>> THEN h
    ELSE Fnv64a((BitXor(h, Head(bytes)) * prime64) % (2 * HalfWord), Tail(bytes))

\* a HashKey hashing the address of the object instead of its content
HashKeyByIdentity(obj) == <<obj.type, obj.id>>

\* HashKey without the type of the object
HashKeyUntyped(obj) ==
    CASE obj.type = INTEGER_OBJ -> <<"", obj.val % (2 * HalfWord)>>
      [] obj.type = BOOLEAN_OBJ -> <<"", IF obj.val THEN 1 ELSE 0>>
      [] obj.type = STRING_OBJ -> <<"", Fnv64a(offset64, CharCodes(obj.val))>>

\* the HashKey methods: the pair (Type, Value); uint64(i.Value) is the
\* integer taken modulo the word
HashKey(obj) ==
    CASE obj.type = INTEGER_OBJ -> <<INTEGER_OBJ, obj.val % (2 * HalfWord)>>
      [] obj.type = BOOLEAN_OBJ -> <<BOOLEAN_OBJ, IF obj.val THEN 1 ELSE 0>>
      [] obj.type = STRING_OBJ ->
            <<STRING_OBJ, Fnv64a(offset64, CharCodes(obj.val))>>

\* pairs[hashKey] = HashPair{Key: k, Value: val} on the map kept as the
\* sequence of its entries
MapPut(pairs, hk, k, val) ==
    IF \E i \in 1..Len(pairs) : pairs[i].hk = hk
    THEN [i \in 1..Len(pairs) |->
            IF pairs[i].hk = hk THEN [hk |-> hk, Key |-> k, Value |-> val]
            ELSE pairs[i]]
    ELSE Append(pairs, [hk |-> hk, Key |-> k, Value |-> val])

MapHas(pairs, hk) == \E i \in 1..Len(pairs) : pairs[i].hk = hk
MapGet(pairs, hk) == pairs[CHOOSE i \in 1..Len(pairs) : pairs[i].hk = hk]

\* VM.buildArray: the elements stack[start .. end)
buildArray(v, start, end) == [i \in 1..(end - start) |-> StackAt(v, start + i - 1)]

\* VM.buildHash: the loop from slot i on; the result is
\* [pairs, err, panicked]
RECURSIVE buildHash(_, _, _, _)
buildHash(v, i, end, pairs) ==
    IF i >= end THEN [pairs |-> pairs, err |-> NoError, panicked |-> FALSE]
    ELSE IF i < 0 \/ i + 1 >= StackSize
         THEN [pairs |-> pairs, err |-> NoError, panicked |-> TRUE]
    ELSE IF ~Hashable(StackAt(v, i))
         THEN [pairs |-> pairs,
               err |-> <<"object is not hashable", StackAt(v, i).type>>,
               panicked |-> FALSE]
    ELSE buildHash(v, i + 2, end,
                   MapPut(pairs, HashKey(StackAt(v, i)), StackAt(v, i),
                          StackAt(v, i + 1)))

\* executeArrayIndex without the test for a negative index
executeArrayIndexUpperOnly(v, left, index) ==
    IF index.val > Len(left.val) - 1 THEN push(v, Null)
    ELSE IF index.val < 0 THEN Panic(v, IndexOutOfRange)
    ELSE push(v, left.val[index.val + 1])

\* VM.executeArrayIndex
executeArrayIndex(v, left, index) ==
    IF index.val < 0 \/ index.val > Len(left.val) - 1
    THEN push(v, Null)
    ELSE push(v, left.val[index.val + 1])

\* executeHashIndex answering Null for an index that is not hashable
executeHashIndexLenient(v, left, index) ==
    IF ~Hashable(index) THEN push(v, Null)
    ELSE IF ~MapHas(left.val, HashKey(index)) THEN push(v, Null)
    ELSE push(v, MapGet(left.val, HashKey(index)).Value)

\* VM.executeHashIndex
executeHashIndex(v, left, index) ==
    IF ~Hashable(index) THEN Errorf(v, <<"index not hashable", index.type>>)
    ELSE IF ~MapHas(left.val, HashKey(index)) THEN push(v, Null)
    ELSE push(v, MapGet(left.val, HashKey(index)).Value)

\* VM.executeIndexExpression
executeIndexExpression(v, left, index) ==
    IF left.type = "nil" THEN Panic(v, NilDereference)
    ELSE IF left.type = HASH_OBJ THEN executeHashIndex(v, left, index)
    ELSE IF left.type = ARRAY_OBJ /\ index.type = "nil" THEN Panic(v, NilDereference)
    ELSE IF left.type = ARRAY_OBJ /\ index.type = INTEGER_OBJ
         THEN executeArrayIndex(v, left, index)
    ELSE Errorf(v, <<"object is not indexable", left.type>>)

\* VM.pushFrame
pushFrame(v, f) ==
    IF v.fp >= MaxFrames THEN Panic(v, IndexOutOfRange)
    ELSE [v EXCEPT !.frames = Append(SubSeq(@, 1, v.fp), f), !.fp = @ + 1]

\* VM.popFrame; the frames above fp are never read again
popFrame(v) ==
    IF v.fp - 1 < 0 THEN Panic(v, IndexOutOfRange)
    ELSE [v EXCEPT !.frames = SubSeq(@, 1, v.fp - 1), !.fp = @ - 1]

\* code.ReadUint16(ins[ip+1:]) panics unless two bytes follow the opcode
HasUint16(ins, ip) == ip + 2 < Len(ins)

----------------------------------------------------------------------------
(* VM.Run: the cases of the dispatch switch.  v is the VM after            *)
(* `vm.currentFrame().ip++`; ip and ins are the locals of Run.             *)

\* case code.OpConstant
RunConstant(v, ins, ip) ==
    IF ~HasUint16(ins, ip) THEN Panic(v, IndexOutOfRange)
    ELSE LET constIndex == ReadUint16(ins, ip + 1)
             v1 == SetIp(v, ip + 2)
         IN IF constIndex >= Len(v.constants) THEN Panic(v1, IndexOutOfRange)
            ELSE push(v1, v.constants[constIndex + 1])

\* case code.OpPop
RunPop(v) == pop(v)

\* case code.OpJump
RunJump(v, ins, ip) ==
    IF ~HasUint16(ins, ip) THEN Panic(v, IndexOutOfRange)
    ELSE SetIp(v, ReadUint16(ins, ip + 1) - 1)

\* case code.OpJumpNotTruthy
RunJumpNotTruthy(v, ins, ip) ==
    IF ~HasUint16(ins, ip) THEN Panic(v, IndexOutOfRange)
    ELSE LET pos == ReadUint16(ins, ip + 1)
             v1 == SetIp(v, ip + 2)
             v2 == pop(v1)
             condition == Top(v1)
         IN IF ~Ok(v2) THEN v2
            ELSE IF ~isTruthy(condition) THEN SetIp(v2, pos - 1) ELSE v2

\* case code.OpSetGlobal
RunSetGlobal(v, ins, ip) ==
    IF ~HasUint16(ins, ip) THEN Panic(v, IndexOutOfRange)
    ELSE LET globalIndex == ReadUint16(ins, ip + 1)
             v1 == SetIp(v, ip + 2)
             v2 == pop(v1)
         IN IF ~Ok(v2) THEN v2 ELSE GlobalPut(v2, globalIndex, Top(v1))

\* case code.OpGetGlobal
RunGetGlobal(v, ins, ip) ==
    IF ~HasUint16(ins, ip) THEN Panic(v, IndexOutOfRange)
    ELSE LET globalIndex == ReadUint16(ins, ip + 1)
             v1 == SetIp(v, ip + 2)
         IN push(v1, GlobalAt(v1, globalIndex))

\* case code.OpArray
RunArray(v, ins, ip) ==
    IF ~HasUint16(ins, ip) THEN Panic(v, IndexOutOfRange)
    ELSE LET numElements == ReadUint16(ins, ip + 1)
             v1 == SetIp(v, ip + 2)
         IN IF numElements > 0 /\ v1.sp - numElements < 0 THEN Panic(v1, IndexOutOfRange)
            ELSE push([AllocVM(v1) EXCEPT !.sp = @ - numElements],
                      NewObj(v1, ARRAY_OBJ,
                             buildArray(v1, v1.sp - numElements, v1.sp)))

\* case code.OpHash; the err assigned by `err = vm.push(hash)` is the
\* variable declared by `hash, err := vm.buildHash(...)` inside the case,
\* so the err tested after the switch stays nil
RunHash(v, ins, ip) ==
    IF ~HasUint16(ins, ip) THEN Panic(v, IndexOutOfRange)
    ELSE LET numElements == ReadUint16(ins, ip + 1)
             v1 == SetIp(v, ip + 2)
             built == buildHash(v1, v1.sp - numElements, v1.sp, <<>>)
         IN IF built.panicked THEN Panic(v1, IndexOutOfRange)
            ELSE IF built.err # NoError THEN Errorf(v1, built.err)
            ELSE [push([AllocVM(v1) EXCEPT !.sp = @ - numElements],
                       NewObj(v1, HASH_OBJ, built.pairs))
                    EXCEPT !.pending = NoError]

\* case code.OpIndex
RunIndex(v) ==
    LET v1 == pop(v)
        index == Top(v)
        v2 == pop(v1)
        left == Top(v1)
    IN IF ~Ok(v1) THEN v1
       ELSE IF ~Ok(v2) THEN v2
       ELSE executeIndexExpression(v2, left, index)

\* case code.OpCall
RunCall(v) ==
    LET v1 == pop(v)
        fn == Top(v)
    IN IF ~Ok(v1) THEN v1
       ELSE IF fn.type # COMPILED_FUNCTION_OBJ
            THEN Errorf(v1, <<"not callable", "*object.CompiledFunction", "<nil>">>)
       ELSE pushFrame(v1, NewFrame(fn))

\* case code.OpReturnValue
RunReturnValue(v) ==
    LET v1 == pop(v)
        val == Top(v)
        v2 == popFrame(v1)
    IN IF ~Ok(v1) THEN v1
       ELSE IF ~Ok(v2) THEN v2
       ELSE push(v2, val)

\* case code.OpReturn
RunReturn(v) ==
    LET v1 == popFrame(v)
    IN IF ~Ok(v1) THEN v1 ELSE push(v1, Null)

----------------------------------------------------------------------------
(* The state machine *)

\* no instruction is on its way through emit and the operand read
\* the REPL and the symbol-table calls before anything happened
IdleRepl == [symbolTable |-> NewSymbolTable, lines |-> <<>>, out |-> <<>>]
IdleSymtab == [tables |-> <<>>, defines |-> <<>>, calls |-> 0, op |-> "none",
               name |-> "", ret |-> Symbol("", GlobalScope, 0), ok |-> TRUE]

IdleCodec ==
    [phase |-> "idle", op |-> 0, operands |-> <<>>, pos |-> 0, ins |-> <<>>,
     readOp |-> 0, readOperands |-> <<>>, read |-> 0]

\* vm.New(c.Bytecode()) after a successful c.Compile(program) with
\* c := compiler.New(), as runVmTests does; a program the compiler rejects
\* is not run
Init ==
    \E i \in 1..Len(Programs), order \in RangeOrders :
        LET c == Compile(WithRangeOrder(New, order), Programs[i].ast)
            bytecode == Bytecode(c)
            fn == CompiledFunction(bytecode.Instructions, 0, 0, FirstHeapId + c.heap)
        IN /\ program = i
           /\ compileErr = c.err
           /\ constants = bytecode.Constants
           /\ mainFn = fn
           /\ frames = <<NewFrame(fn)>>
           /\ fp = 1
           /\ stack = <<>>
           /\ sp = 0
           /\ globals = <<>>
           /\ heap = c.heap + 1
           /\ status = IF c.err = NoError THEN "ready" ELSE "rejected"
           /\ err = NoError
           /\ lastOp = -1
           /\ basePointers = <<0>>
           /\ codec = IdleCodec
           /\ repl = IdleRepl
           /\ symtab = IdleSymtab

\* the VM at the top of a loop iteration
VM ==
    [constants |-> constants, frames |-> frames, fp |-> fp, stack |-> stack,
     sp |-> sp, globals |-> globals, heap |-> heap, status |-> "running",
     pending |-> NoError]

Running == status \in {"ready", "running"}

\* the loop condition of Run; it reads currentFrame()
LoopCondition ==
    currentFrame(VM).ip < Len(Instructions(currentFrame(VM))) - 1

\* ip, ins and op of the iteration
NextIp == currentFrame(VM).ip + 1
NextIns == Instructions(currentFrame(VM))
NextOpcode == NextIns[NextIp + 1]

\* the VM after `vm.currentFrame().ip++`
Fetched == SetIp(VM, NextIp)

\* the operand byte that follows the opcode of the iteration (0 when the
\* instructions end with the opcode)
NextOperand == IF NextIp + 2 <= Len(NextIns) THEN NextIns[NextIp + 2] ELSE 0

\* the end of the loop body: `if err != nil { return err }`
Commit(r) ==
    /\ frames' = r.frames
    /\ fp' = r.fp
    /\ stack' = r.stack
    /\ sp' = r.sp
    /\ globals' = r.globals
    /\ heap' = r.heap
    /\ status' = IF r.status = "panicked" THEN "panicked"
                 ELSE IF r.pending # NoError THEN "failed" ELSE "running"
    /\ err' = r.pending
    /\ lastOp' = NextOpcode
    /\ basePointers' =
          IF r.fp > fp THEN Append(basePointers, sp - NextOperand)
          ELSE SubSeq(basePointers, 1, r.fp)
    /\ UNCHANGED <<program, compileErr, constants, mainFn, codec, repl, symtab>>

Dispatch(ops) == Running /\ fp >= 1 /\ LoopCondition /\ NextOpcode \in ops

ExecConstant == Dispatch({OpConstant}) /\ Commit(RunConstant(Fetched, NextIns, NextIp))

ExecArithmetic ==
    /\ Dispatch({OpAdd, OpSub, OpMul, OpDiv})
    /\ Commit(executeBinaryOperation(Fetched, NextOpcode))

ExecTrue == Dispatch({OpTrue}) /\ Commit(push(Fetched, True))

ExecFalse == Dispatch({OpFalse}) /\ Commit(push(Fetched, False))

ExecComparison ==
    /\ Dispatch({OpEqual, OpNotEqual, OpGreaterThan})
    /\ Commit(executeComparison(Fetched, NextOpcode))

ExecBang == Dispatch({OpBang}) /\ Commit(executeBangOperator(Fetched))

ExecMinus == Dispatch({OpMinus}) /\ Commit(executeMinusOperator(Fetched))

ExecPop == Dispatch({OpPop}) /\ Commit(RunPop(Fetched))

ExecJump == Dispatch({OpJump}) /\ Commit(RunJump(Fetched, NextIns, NextIp))

ExecJumpNotTruthy ==
    Dispatch({OpJumpNotTruthy}) /\ Commit(RunJumpNotTruthy(Fetched, NextIns, NextIp))

ExecSetGlobal == Dispatch({OpSetGlobal}) /\ Commit(RunSetGlobal(Fetched, NextIns, NextIp))

ExecGetGlobal == Dispatch({OpGetGlobal}) /\ Commit(RunGetGlobal(Fetched, NextIns, NextIp))

ExecArray == Dispatch({OpArray}) /\ Commit(RunArray(Fetched, NextIns, NextIp))

ExecHash == Dispatch({OpHash}) /\ Commit(RunHash(Fetched, NextIns, NextIp))

ExecIndex == Dispatch({OpIndex}) /\ Commit(RunIndex(Fetched))

ExecCall == Dispatch({OpCall}) /\ Commit(RunCall(Fetched))

ExecReturnValue == Dispatch({OpReturnValue}) /\ Commit(RunReturnValue(Fetched))

ExecReturn == Dispatch({OpReturn}) /\ Commit(RunReturn(Fetched))

ExecNull == Dispatch({OpNull}) /\ Commit(push(Fetched, Null))

\* the opcodes the switch has a case for
Handled ==
    {OpConstant, OpAdd, OpSub, OpMul, OpDiv, OpTrue, OpFalse, OpEqual,
     OpNotEqual, OpGreaterThan, OpBang, OpMinus, OpPop, OpJump,
     OpJumpNotTruthy, OpSetGlobal, OpGetGlobal, OpArray, OpHash, OpIndex,
     OpCall, OpReturnValue, OpReturn, OpNull}

\* a byte the switch has no case for: the iteration only advanced ip
ExecNoCase ==
    /\ Running /\ fp >= 1 /\ LoopCondition /\ NextOpcode \notin Handled
    /\ Commit(Fetched)

\* the loop condition is false: Run returns nil
Halt ==
    /\ Running /\ fp >= 1 /\ ~LoopCondition
    /\ status' = "halted"
    /\ UNCHANGED <<program, compileErr, constants, mainFn, frames, fp, stack, sp,
                   globals, heap, err, lastOp, basePointers, codec, repl, symtab>>

\* no frame is left: currentFrame() indexes frames[-1]
NoFrame ==
    /\ Running /\ fp < 1
    /\ status' = "panicked"
    /\ err' = <<"panic", IndexOutOfRange>>
    /\ UNCHANGED <<program, compileErr, constants, mainFn, frames, fp, stack, sp,
                   globals, heap, lastOp, basePointers, codec, repl, symtab>>

Next ==
    \/ ExecConstant \/ ExecArithmetic \/ ExecTrue \/ ExecFalse
    \/ ExecComparison \/ ExecBang \/ ExecMinus \/ ExecPop \/ ExecJump
    \/ ExecJumpNotTruthy \/ ExecSetGlobal \/ ExecGetGlobal \/ ExecArray
    \/ ExecHash \/ ExecIndex \/ ExecCall \/ ExecReturnValue \/ ExecReturn
    \/ ExecNull \/ ExecNoCase \/ Halt \/ NoFrame

Spec == Init /\ [][Next]_vars

----------------------------------------------------------------------------
(* Encoding and decoding of one instruction: Compiler.emit appends         *)
(* code.Make(op, operands...) to the instructions emitted so far, and the  *)
(* operands are read back at the position emit returned.                   *)

Opcodes == OpConstant..OpGetFree

\* operand values at the ends of the range of each width
OperandValues(width) ==
    IF width = 2 THEN {0, 1, 255, 256, 65534, 65535} ELSE {0, 1, 254, 255}

\* the operand lists of an opcode in which each operand fits its width
OperandLists(op) ==
    LET widths == OperandWidths(op)
    IN IF Len(widths) = 0 THEN {<<>>}
       ELSE IF Len(widths) = 1 THEN {<<a>> : a \in OperandValues(widths[1])}
       ELSE {<<a, b>> : a \in OperandValues(widths[1]), b \in OperandValues(widths[2])}

\* instructions already emitted when emit is called
Prefixes == {<<>>, Make(OpTrue, <<>>), Make(OpConstant, <<65535>>) \o Make(OpCall, <<1>>)}

CodecInit ==
    /\ program = 1
    /\ compileErr = NoError
    /\ constants = <<>>
    /\ mainFn = CompiledFunction(<<>>, 0, 0, FirstHeapId)
    /\ frames = <<>>
    /\ fp = 0
    /\ stack = <<>>
    /\ sp = 0
    /\ globals = <<>>
    /\ heap = 1
    /\ status = "codec"
    /\ err = NoError
    /\ lastOp = -1
    /\ basePointers = <<>>
    /\ repl = IdleRepl
    /\ symtab = IdleSymtab
    /\ \E op \in Opcodes, prefix \in Prefixes :
          \E operands \in OperandLists(op) :
              codec = [IdleCodec EXCEPT !.phase = "input", !.op = op,
                                        !.operands = operands, !.ins = prefix]

\* pos := c.emit(op, operands...) on a compiler holding codec.ins
Encode ==
    /\ codec.phase = "input"
    /\ LET c == addInstruction(New, codec.ins)
       IN codec' = [codec EXCEPT
                        !.phase = "encoded",
                        !.pos = Len(currentInstructions(c)),
                        !.ins = currentInstructions(emit(c, codec.op, codec.operands))]
    /\ UNCHANGED <<program, compileErr, constants, mainFn, frames, fp, stack, sp,
                   globals, heap, status, err, lastOp, basePointers, repl, symtab>>

\* the opcode at pos, then code.ReadOperands on ins[pos+1:]; reading past
\* the end of the slice is a Go panic
Decode ==
    /\ codec.phase = "encoded"
    /\ LET op == codec.ins[codec.pos + 1]
           r == ReadOperands(op, codec.ins, codec.pos + 1)
       IN IF codec.pos + InstructionLength(op) > Len(codec.ins)
          THEN codec' = [codec EXCEPT !.phase = "panicked", !.readOp = op]
          ELSE codec' = [codec EXCEPT !.phase = "decoded", !.readOp = op,
                                      !.readOperands = r.operands, !.read = r.read]
    /\ UNCHANGED <<program, compileErr, constants, mainFn, frames, fp, stack, sp,
                   globals, heap, status, err, lastOp, basePointers, repl, symtab>>

CodecNext == Encode \/ Decode

CodecSpec == CodecInit /\ [][CodecNext]_vars

\* VM.LastPoppedStackElem
LastPoppedStackElem == StackAt(VM, sp)

----------------------------------------------------------------------------
(* repl.Start: the lines are compiled with one symbol table and one       *)
(* constants pool and run on one globals array.  A line is given as the   *)
(* program the parser returns for it.                                     *)

\* let a = 1;   let b = 2;   a;   a + b;   let a = 3;   b;
\* let c = a + b; c;   nope;
ReplLines == <<
    Program(<<LetStatement("a", IntLit(1))>>),
    Program(<<LetStatement("b", IntLit(2))>>),
    ExprProgram(Identifier("a")),
    ExprProgram(InfixExpression("+", Identifier("a"), Identifier("b"))),
    Program(<<LetStatement("a", IntLit(3))>>),
    ExprProgram(Identifier("b")),
    Program(<<LetStatement("c", InfixExpression("+", Identifier("a"), Identifier("b"))),
              ExpressionStatement(Identifier("c"))>>),
    ExprProgram(Identifier("nope"))
    >>

\* Object.Inspect, as the bytes of the text
Inspect(obj) ==
    CASE obj.type = INTEGER_OBJ ->
            IF obj.val < 0 THEN <<45>> \o Digits(-obj.val) ELSE Digits(obj.val)
      [] obj.type = STRING_OBJ -> CharCodes(obj.val)
      [] obj.type = BOOLEAN_OBJ ->
            IF obj.val THEN <<116, 114, 117, 101>> ELSE <<102, 97, 108, 115, 101>>
      [] obj.type = NULL_OBJ -> <<110, 117, 108, 108>>
      [] OTHER -> <<>>

\* the state before the first prompt
ReplInit ==
    /\ program = 0
    /\ compileErr = NoError
    /\ constants = <<>>
    /\ mainFn = CompiledFunction(<<>>, 0, 0, FirstHeapId)
    /\ frames = <<>>
    /\ fp = 0
    /\ stack = <<>>
    /\ sp = 0
    /\ globals = <<>>
    /\ heap = 1
    /\ status = "prompt"
    /\ err = NoError
    /\ lastOp = -1
    /\ basePointers = <<>>
    /\ codec = IdleCodec
    /\ repl = [IdleRepl EXCEPT !.symbolTable = DefineBuiltins(NewSymbolTable, 1)]
    /\ symtab = IdleSymtab

\* one line is scanned, parsed and compiled, and a VM is made of the
\* bytecode: from scanner.Scan() to vm.NewWithGlobals.  A compile error is
\* written to out and the bytecode compiled so far is run all the same.
ReplLine ==
    /\ status = "prompt"
    /\ Len(repl.lines) < MaxLines
    /\ \E l \in 1..Len(ReplLines) :
          LET c0 == NewWithState(repl.symbolTable, constants)
              c == Compile([c0 EXCEPT !.heap = heap], ReplLines[l])
              bytecode == Bytecode(c)
              fn == CompiledFunction(bytecode.Instructions, 0, 0, FirstHeapId + c.heap)
          IN /\ repl' = [repl EXCEPT
                            !.symbolTable = c.symbolTable[1],
                            !.lines = Append(@, l),
                            !.out = IF c.err = NoError THEN @
                                    ELSE Append(@, <<"compilation failed", c.err>>)]
             /\ compileErr' = c.err
             /\ constants' = bytecode.Constants
             /\ mainFn' = fn
             /\ frames' = <<NewFrame(fn)>>
             /\ fp' = 1
             /\ stack' = <<>>
             /\ sp' = 0
             /\ heap' = c.heap + 1
             /\ status' = "ready"
             /\ err' = NoError
             /\ lastOp' = -1
             /\ basePointers' = <<0>>
    /\ UNCHANGED <<program, globals, codec, symtab>>

\* after machine.Run(): the error of Run, if any, is written to out, then
\* result.Inspect() of LastPoppedStackElem; a nil result is a nil
\* dereference
ReplPrint ==
    /\ status \in {"halted", "failed"}
    /\ LET result == LastPoppedStackElem
           out1 == IF status = "failed"
                   THEN Append(repl.out, <<"vm failed", err>>) ELSE repl.out
       IN IF result.type = "nil"
          THEN /\ status' = "panicked"
               /\ err' = <<"panic", NilDereference>>
               /\ repl' = [repl EXCEPT !.out = out1]
          ELSE /\ status' = "prompt"
               /\ err' = NoError
               /\ repl' = [repl EXCEPT !.out = Append(out1, Inspect(result))]
    /\ UNCHANGED <<program, compileErr, constants, mainFn, frames, fp, stack, sp,
                   globals, heap, lastOp, basePointers, codec, symtab>>

\* scanner.Scan() returns false: Start returns
ReplEof ==
    /\ status = "prompt"
    /\ status' = "eof"
    /\ UNCHANGED <<program, compileErr, constants, mainFn, frames, fp, stack, sp,
                   globals, heap, err, lastOp, basePointers, codec, repl, symtab>>

\* the lines of ReplLines compile to these opcodes only
ReplNext ==
    \/ ReplLine \/ ReplPrint \/ ReplEof
    \/ ExecConstant \/ ExecArithmetic \/ ExecPop \/ ExecSetGlobal
    \/ ExecGetGlobal \/ Halt

ReplSpec == ReplInit /\ [][ReplNext]_vars

\* the program of the run
Name == Programs[program].name
Ast == Programs[program].ast

----------------------------------------------------------------------------
(* Properties.  The expected results are computed from the AST by the      *)
(* operators below, independently of the compiler and the VM.              *)

\* a program that is one expression statement
IsExpressionProgram(p) ==
    /\ p.kind = "Program"
    /\ Len(p.Statements) = 1
    /\ p.Statements[1].kind = "ExpressionStatement"

\* built from integer literals, infix + - * / and prefix -
RECURSIVE IsArithmetic(_)
IsArithmetic(e) ==
    CASE e.kind = "IntegerLiteral" -> TRUE
      [] e.kind = "PrefixExpression" -> e.Operator = "-" /\ IsArithmetic(e.Right)
      [] e.kind = "InfixExpression" ->
            /\ e.Operator \in {"+", "-", "*", "/"}
            /\ IsArithmetic(e.Left)
            /\ IsArithmetic(e.Right)
      [] OTHER -> FALSE

\* the quotient of a by b, rounded toward zero
Quotient(a, b) ==
    LET q == (IF a < 0 THEN -a ELSE a) \div (IF b < 0 THEN -b ELSE b)
    IN IF (a < 0) = (b < 0) THEN q ELSE -q

\* an integer reduced to the signed two's complement range
Signed(n) ==
    LET m == n % (2 * HalfWord)
    IN IF m >= HalfWord THEN m - 2 * HalfWord ELSE m

\* the value of an arithmetic expression, each result being an Integer of
\* the signed range; Left is the left operand
RECURSIVE MathValue(_)
MathValue(e) ==
    CASE e.kind = "IntegerLiteral" -> e.Value
      [] e.kind = "PrefixExpression" -> Signed(-MathValue(e.Right))
      [] e.Operator = "+" -> Signed(MathValue(e.Left) + MathValue(e.Right))
      [] e.Operator = "-" -> Signed(MathValue(e.Left) - MathValue(e.Right))
      [] e.Operator = "*" -> Signed(MathValue(e.Left) * MathValue(e.Right))
      [] OTHER ->
            IF MathValue(e.Right) = 0 THEN 0
            ELSE Signed(Quotient(MathValue(e.Left), MathValue(e.Right)))

\* some division of the expression has divisor 0
RECURSIVE DividesByZero(_)
DividesByZero(e) ==
    CASE e.kind = "IntegerLiteral" -> FALSE
      [] e.kind = "PrefixExpression" -> DividesByZero(e.Right)
      [] OTHER ->
            \/ DividesByZero(e.Left)
            \/ DividesByZero(e.Right)
            \/ (e.Operator = "/" /\ MathValue(e.Right) = 0)

\* C1: a program that is one arithmetic expression statement without a
\* division by zero is compiled, runs without error and, when Run has
\* returned, LastPoppedStackElem is the Integer with the expression's value
\* (the deeper stack operand being the left operand of each binary opcode)
C1_ArithmeticValue ==
    LET e == Ast.Statements[1].Expression
    IN (IsExpressionProgram(Ast) /\ IsArithmetic(e) /\ ~DividesByZero(e)) =>
          /\ status \notin {"rejected", "failed", "panicked"}
          /\ status = "halted" =>
                /\ LastPoppedStackElem.type = INTEGER_OBJ
                /\ LastPoppedStackElem.val = MathValue(e)

\* C1 witness: (5 + 10 * 2 + 15 / 3) * 2 + -10 has run and left Integer 50
C1_Witness ==
    /\ Name = "arithmeticExample"
    /\ status = "halted"
    /\ LastPoppedStackElem.type = INTEGER_OBJ
    /\ LastPoppedStackElem.val = 50

\* the condition of an if is truthy; literal conditions and comparisons of
\* literals only
ConditionHolds(c) ==
    CASE c.kind = "Boolean" -> c.Value
      [] c.kind = "IntegerLiteral" -> TRUE
      [] c.kind = "InfixExpression" /\ c.Operator = "<" -> c.Left.Value < c.Right.Value
      [] c.kind = "InfixExpression" /\ c.Operator = ">" -> c.Left.Value > c.Right.Value
      [] OTHER -> FALSE

SimpleCondition(c) ==
    \/ c.kind \in {"Boolean", "IntegerLiteral"}
    \/ (c.kind = "InfixExpression" /\ c.Operator \in {"<", ">"}
        /\ c.Left.kind = "IntegerLiteral" /\ c.Right.kind = "IntegerLiteral")

\* the block ends in an expression statement that is an integer literal
EndsInLiteral(b) ==
    /\ b.kind = "BlockStatement"
    /\ Len(b.Statements) > 0
    /\ b.Statements[Len(b.Statements)].kind = "ExpressionStatement"
    /\ b.Statements[Len(b.Statements)].Expression.kind = "IntegerLiteral"

FinalLiteral(b) == b.Statements[Len(b.Statements)].Expression.Value

\* the value an if-expression leaves matches the branch taken
IfValueOk(e, top) ==
    IF ConditionHolds(e.Condition)
    THEN EndsInLiteral(e.Consequence) =>
            top.type = INTEGER_OBJ /\ top.val = FinalLiteral(e.Consequence)
    ELSE IF e.Alternative.kind = "nil" THEN top.id = Null.id
    ELSE EndsInLiteral(e.Alternative) =>
            top.type = INTEGER_OBJ /\ top.val = FinalLiteral(e.Alternative)

\* C2: when a program that is one if-expression statement reaches the OpPop
\* of the statement, the if-expression has left exactly one value on the
\* stack (sp = 1), and it is the value of the branch taken, or Null when
\* the condition is not truthy and there is no alternative; also for an
\* empty block and a block that ends in a let statement
C2_IfLeavesOneValue ==
    LET e == Ast.Statements[1].Expression
    IN (/\ IsExpressionProgram(Ast)
        /\ e.kind = "IfExpression"
        /\ status \in {"ready", "running"}
        /\ fp = 1
        /\ frames[1].ip = Len(mainFn.val.Instructions) - 2) =>
          /\ sp = 1
          /\ SimpleCondition(e.Condition) => IfValueOk(e, Top(VM))

\* a comparison of two integer literals
IsComparison(p) ==
    /\ IsExpressionProgram(p)
    /\ p.Statements[1].Expression.kind = "InfixExpression"
    /\ p.Statements[1].Expression.Operator \in {"<", ">", "==", "!="}
    /\ p.Statements[1].Expression.Left.kind = "IntegerLiteral"
    /\ p.Statements[1].Expression.Right.kind = "IntegerLiteral"

ComparisonHolds(op, a, b) ==
    CASE op = "<" -> a < b
      [] op = ">" -> a > b
      [] op = "==" -> a = b
      [] OTHER -> a # b

\* C3: `a < b` is compiled as push b, push a, OpGreaterThan and `a > b` as
\* push a, push b, OpGreaterThan; running a comparison of two integers
\* with < > == != yields the True singleton when the comparison holds and
\* the False singleton when it does not
C3_Comparison ==
    LET e == Ast.Statements[1].Expression
        a == e.Left.Value
        b == e.Right.Value
    IN IsComparison(Ast) =>
          /\ status \notin {"rejected", "failed", "panicked"}
          /\ e.Operator \in {"<", ">"} =>
                /\ mainFn.val.Instructions =
                      Make(OpConstant, <<0>>) \o Make(OpConstant, <<1>>)
                      \o Make(OpGreaterThan, <<>>) \o Make(OpPop, <<>>)
                /\ Len(constants) = 2
                /\ constants[1].type = INTEGER_OBJ
                /\ constants[2].type = INTEGER_OBJ
                /\ constants[1].val = (IF e.Operator = "<" THEN b ELSE a)
                /\ constants[2].val = (IF e.Operator = "<" THEN a ELSE b)
          /\ status = "halted" =>
                LastPoppedStackElem.id =
                    (IF ComparisonHolds(e.Operator, a, b) THEN True.id ELSE False.id)

\* C3 witness: a program a < b with a less than b has run and left True,
\* after OpGreaterThan was dispatched on (b, a)
C3_Witness ==
    /\ IsComparison(Ast)
    /\ Ast.Statements[1].Expression.Operator = "<"
    /\ Ast.Statements[1].Expression.Left.Value < Ast.Statements[1].Expression.Right.Value
    /\ status = "halted"
    /\ LastPoppedStackElem.id = True.id

\* C4: let newAdder = fn(a, b) { fn(c) { a + b + c } };
\* let adder = newAdder(1, 2); adder(8); is compiled (the inner function
\* capturing a and b) and evaluates to Integer 11
C4_NewAdder ==
    Name = "newAdder" =>
        /\ status # "rejected"
        /\ status = "halted" =>
              /\ LastPoppedStackElem.type = INTEGER_OBJ
              /\ LastPoppedStackElem.val = 11

\* C5: let countDown = fn(x) { if (x == 0) { return 0; } else
\* { countDown(x - 1); } }; countDown(1); is compiled by a fresh compiler
\* (countDown resolves inside its own body) and evaluates to Integer 0
C5_CountDown ==
    Name = "countDown" =>
        /\ compileErr = NoError
        /\ status = "halted" =>
              /\ LastPoppedStackElem.type = INTEGER_OBJ
              /\ LastPoppedStackElem.val = 0

\* C6: when Run has returned nil the stack pointer is 0
C6_StackEmptyAtEnd == status = "halted" => sp = 0

\* C7: Run either returns nil or returns an error: no step of an accepted
\* program indexes the stack, the frames or the globals out of range (as a
\* pop at sp = 0 does), and 0 <= sp <= StackSize throughout
C7_NoOutOfRangeAccess ==
    /\ 0 <= sp
    /\ sp <= StackSize
    /\ ~(status = "panicked" /\ err[2] = IndexOutOfRange)

\* the push that ends OpHash cannot succeed: the stack is full once the
\* operands of the hash are removed
HashPushOverflows ==
    /\ HasUint16(NextIns, NextIp)
    /\ sp - ReadUint16(NextIns, NextIp + 1) >= StackSize

\* C8: an instruction that produces a runtime error ends the run with that
\* error; for OpHash: when the push of the new hash overflows the stack,
\* Run returns the stack overflow error and dispatches nothing more
C8_ErrorEndsRun ==
    [][(ExecHash /\ HashPushOverflows) =>
          (status' = "failed" /\ err' = <<"STACK OVERFLOW">>)]_vars

\* the callee of the OpCall n about to be dispatched is a function with n
\* parameters at stack[sp - 1 - n]
CalleeTakesOperands ==
    /\ sp - 1 - NextOperand >= 0
    /\ StackAt(VM, sp - 1 - NextOperand).type = COMPILED_FUNCTION_OBJ
    /\ StackAt(VM, sp - 1 - NextOperand).val.NumParameters = NextOperand

\* C9: OpCall n dispatched with sp = s on a callee with n parameters at
\* stack[s - 1 - n] pushes a frame with ip = -1 and leaves
\* sp = (s - n) + num_locals
C9_CallReservesLocals ==
    [][(ExecCall /\ CalleeTakesOperands) =>
          /\ fp' = fp + 1
          /\ frames'[fp'].ip = -1
          /\ sp' = (sp - NextOperand)
                      + StackAt(VM, sp - 1 - NextOperand).val.NumLocals]_vars

\* C10: OpReturnValue in a called frame with base pointer bp pops the
\* frame and leaves sp = bp and stack[bp - 1] = the value returned,
\* whatever the callee left on the stack; OpReturn does so with Null
C10_ReturnResetsStack ==
    [][((ExecReturnValue \/ ExecReturn) /\ fp >= 2 /\ status' = "running") =>
          /\ fp' = fp - 1
          /\ sp' = basePointers[fp]
          /\ basePointers[fp] >= 1
          /\ basePointers[fp] <= Len(stack')
          /\ stack'[basePointers[fp]].id =
                (IF NextOpcode = OpReturnValue THEN Top(VM).id ELSE Null.id)]_vars

\* C11: after the OpReturnValue or OpReturn that ends a call with n
\* arguments made at stack pointer s, the stack pointer is s - n + 1
C11_ReturnStackPointer ==
    [][((ExecReturnValue \/ ExecReturn) /\ fp >= 2 /\ status' = "running") =>
          sp' = basePointers[fp] + 1]_vars

\* the callee of the OpCall n about to be dispatched is a function whose
\* number of parameters is not n
CalleeArityDiffers ==
    /\ sp - 1 - NextOperand >= 0
    /\ StackAt(VM, sp - 1 - NextOperand).type = COMPILED_FUNCTION_OBJ
    /\ StackAt(VM, sp - 1 - NextOperand).val.NumParameters # NextOperand

\* C12: OpCall n on a callee with num_parameters # n ends the run with
\* the error `wrong number of arguments: want=<num_parameters>, got=<n>`
\* and pushes no frame
C12_WrongNumberOfArguments ==
    [][(ExecCall /\ CalleeArityDiffers) =>
          /\ status' = "failed"
          /\ err' = <<"wrong number of arguments",
                      StackAt(VM, sp - 1 - NextOperand).val.NumParameters,
                      NextOperand>>
          /\ fp' = fp]_vars

\* the value at stack[sp - 1 - n] of the OpCall n about to be dispatched
\* is an object that is not a function
CalleeNotCallable ==
    /\ sp - 1 - NextOperand >= 0
    /\ StackAt(VM, sp - 1 - NextOperand).type
          \notin {"nil", COMPILED_FUNCTION_OBJ}

\* C13: OpCall n whose callee at stack[sp - 1 - n] is not a function ends
\* the run with the error `calling non-function/non-builtin` and pushes
\* no frame
C13_NonCallable ==
    [][(ExecCall /\ CalleeNotCallable) =>
          /\ status' = "failed"
          /\ err' = <<"calling non-function/non-builtin">>
          /\ fp' = fp]_vars

\* the instruction about to be dispatched pushes a value and the stack is
\* full when it does: the opcodes that push without popping first, and
\* OpArray 0 / OpHash 0
PushAtFullStack ==
    \/ NextOpcode \in {OpTrue, OpFalse, OpNull, OpReturn} /\ sp = StackSize
    \/ /\ NextOpcode = OpConstant /\ sp = StackSize
       /\ HasUint16(NextIns, NextIp)
       /\ ReadUint16(NextIns, NextIp + 1) < Len(constants)
    \/ /\ NextOpcode = OpGetGlobal /\ sp = StackSize
       /\ HasUint16(NextIns, NextIp)
    \/ /\ NextOpcode \in {OpArray, OpHash}
       /\ HasUint16(NextIns, NextIp)
       /\ sp - ReadUint16(NextIns, NextIp + 1) = StackSize

\* C14: an instruction that pushes a value while sp = StackSize ends the
\* run with the stack overflow error and leaves the stack as it was
\* (the opcodes that pop before they push never push at sp = StackSize)
C14_StackOverflow ==
    [][(Next /\ Running /\ fp >= 1 /\ LoopCondition /\ PushAtFullStack) =>
          /\ status' = "failed"
          /\ err' = <<"STACK OVERFLOW">>
          /\ stack' = stack]_vars

\* C15: OpCall on a function when the frame stack already holds MaxFrames
\* frames ends the run with a runtime error; no frame is added
C15_FrameOverflow ==
    [][(/\ ExecCall
        /\ fp >= MaxFrames
        /\ sp - 1 - NextOperand >= 0
        /\ StackAt(VM, sp - 1 - NextOperand).type = COMPILED_FUNCTION_OBJ) =>
          /\ status' = "failed"
          /\ fp' = fp]_vars

\* the instruction buffers of the compiled program: the main function and
\* every function of the constants pool
CompiledInstructions ==
    {mainFn.val.Instructions}
    \cup {constants[i].val.Instructions :
              i \in {j \in 1..Len(constants) :
                        constants[j].type = COMPILED_FUNCTION_OBJ}}

\* every jump of ins has the offset of an instruction of ins as operand
\* (a buffer without a byte equal to a jump opcode has no jump)
JumpTargetsValid(ins) ==
    (\E i \in 1..Len(ins) : ins[i] \in {OpJump, OpJumpNotTruthy}) =>
        LET starts == InstructionStarts(ins, 0)
        IN \A pos \in starts :
              ins[pos + 1] \in {OpJump, OpJumpNotTruthy} =>
                  /\ pos + 2 < Len(ins)
                  /\ ReadUint16(ins, pos + 1) \in starts

\* C16: in every instruction buffer of a program compiled without error,
\* the operand of every OpJump and OpJumpNotTruthy is the offset of the
\* first byte of an instruction of the same buffer
C16_JumpTargets ==
    compileErr = NoError => \A ins \in CompiledInstructions : JumpTargetsValid(ins)

\* C16, its case: an if-expression that ends the consequence of another
\* one is compiled; the inner OpJump points where the removed OpPop was,
\* which is now the OpJump of the outer if-expression
C16_Witness ==
    /\ Name = "nestedLast"
    /\ compileErr = NoError
    /\ LET ins == mainFn.val.Instructions
       IN \E pos \in InstructionStarts(ins, 0) :
             /\ ins[pos + 1] = OpJump
             /\ ReadUint16(ins, pos + 1) < Len(ins)
             /\ ins[ReadUint16(ins, pos + 1) + 1] = OpJump

\* the functions the compiler placed in the constants pool
CompiledFunctions ==
    {constants[i] : i \in {j \in 1..Len(constants) :
                              constants[j].type = COMPILED_FUNCTION_OBJ}}

\* the opcode of the last instruction of a non-empty buffer
LastOpcode(ins) ==
    LET starts == InstructionStarts(ins, 0)
    IN ins[(CHOOSE p \in starts : \A q \in starts : q <= p) + 1]

\* C17: the instructions of every function literal compiled without
\* error end with an OpReturnValue or an OpReturn instruction
C17_FunctionsEndInReturn ==
    compileErr = NoError =>
        \A f \in CompiledFunctions :
            /\ Len(f.val.Instructions) > 0
            /\ LastOpcode(f.val.Instructions) \in {OpReturnValue, OpReturn}

\* C17, its case: a function whose body ends in an if-expression is
\* compiled and ends with OpReturnValue, and one whose body ends in a let
\* statement ends with OpReturn
C17_Witness ==
    /\ Name = "functionBody"
    /\ compileErr = NoError
    /\ \E f \in CompiledFunctions :
          \/ /\ \E i \in 1..Len(f.val.Instructions) :
                    f.val.Instructions[i] = OpJumpNotTruthy
             /\ LastOpcode(f.val.Instructions) = OpReturnValue
          \/ /\ \E i \in 1..Len(f.val.Instructions) :
                    f.val.Instructions[i] = OpSetGlobal
             /\ LastOpcode(f.val.Instructions) = OpReturn

\* the constants pools hold the same objects in the same order
SameConstants(a, b) ==
    /\ Len(a) = Len(b)
    /\ \A i \in 1..Len(a) :
          /\ a[i].type = b[i].type
          /\ a[i].id = b[i].id
          /\ a[i].val = b[i].val

\* C18: compiling the AST of the run once more with a fresh compiler
\* yields the same instructions and the same constants pool, whatever
\* order the map iterations of the second compilation take
C18_CompileDeterministic ==
    status = "ready" =>
        \A order \in RangeOrders :
            LET again == Compile(WithRangeOrder(New, order), Ast)
            IN /\ again.err = NoError
               /\ Bytecode(again).Instructions = mainFn.val.Instructions
               /\ SameConstants(Bytecode(again).Constants, constants)

\* C19: the bytes emit appended for an opcode and operands that fit their
\* widths decode, at the position emit returned, to the same opcode and
\* the same operands; their number is 1 plus the sum of the operand
\* widths of the opcode, whatever the operands are
C19_RoundTrip ==
    /\ codec.phase # "panicked"
    /\ codec.phase = "decoded" =>
          /\ codec.readOp = codec.op
          /\ codec.readOperands = codec.operands
          /\ Len(codec.ins) - codec.pos = InstructionLength(codec.op)
          /\ codec.read = InstructionLength(codec.op) - 1

\* C19, its case: OpClosure 65535 255 (a u16 and a u8 operand at the top
\* of their ranges) was emitted after other instructions and read back
C19_Witness ==
    /\ codec.phase = "decoded"
    /\ codec.op = OpClosure
    /\ codec.operands = <<65535, 255>>
    /\ codec.pos > 0
    /\ codec.readOperands = <<65535, 255>>

\* the hashable objects the VM holds: in the constants pool and on the
\* stack below sp
HashableObjects ==
    {o \in {constants[i] : i \in 1..Len(constants)}
            \cup {StackAt(VM, i) : i \in 0..(sp - 1)} : Hashable(o)}

\* C20: two hashable objects of the same type with equal content have
\* equal HashKeys, also when they are distinct objects
C20_EqualContentEqualHashKey ==
    \A a, b \in HashableObjects :
        (a.type = b.type /\ a.val = b.val) => HashKey(a) = HashKey(b)

\* C20, its case: {"one": 1, "two": 2}["two"] has run: the key "two" of
\* the literal and the index "two" are distinct String objects with the
\* same bytes, and the index found the value 2
C20_Witness ==
    /\ status = "halted"
    /\ LastPoppedStackElem.type = INTEGER_OBJ
    /\ LastPoppedStackElem.val = 2
    /\ \E i, j \in 1..Len(constants) :
          /\ constants[i].type = STRING_OBJ
          /\ constants[j].type = STRING_OBJ
          /\ constants[i].id # constants[j].id
          /\ constants[i].val = constants[j].val

\* the operands of the OpIndex about to be dispatched
IndexLeft == StackAt(VM, sp - 2)
IndexIndex == StackAt(VM, sp - 1)

\* C21: OpIndex on an Array and an Integer index i pops both, pushes
\* element i when 0 <= i < length and Null for every other i, and
\* returns no error
C21_ArrayIndex ==
    [][(/\ ExecIndex /\ sp >= 2
        /\ IndexLeft.type = ARRAY_OBJ /\ IndexIndex.type = INTEGER_OBJ) =>
          /\ status' = "running"
          /\ sp' = sp - 1
          /\ stack'[sp - 1].id =
                (IF 0 <= IndexIndex.val /\ IndexIndex.val < Len(IndexLeft.val)
                 THEN IndexLeft.val[IndexIndex.val + 1].id
                 ELSE Null.id)]_vars

\* C21, its case: an array was indexed with a negative Integer (still in
\* the slot above the result) and the result is Null
C21_Witness ==
    /\ Name = "arrayIndex"
    /\ lastOp = OpIndex
    /\ status = "running"
    /\ sp = 1
    /\ stack[1].id = Null.id
    /\ StackAt(VM, 1).type = INTEGER_OBJ
    /\ StackAt(VM, 1).val < 0

\* the value a Hash holds under the HashKey of the index, Null if none
HashValueAt(hash, index) ==
    IF \E i \in 1..Len(hash.val) : hash.val[i].hk = HashKey(index)
    THEN hash.val[CHOOSE i \in 1..Len(hash.val) : hash.val[i].hk = HashKey(index)].Value
    ELSE Null

\* C22: OpIndex on a Hash with a hashable index pushes the value stored
\* under the index's HashKey, or Null when there is none; with an index
\* that is not hashable it is a runtime error and pushes nothing; on a
\* left operand that is neither Array nor Hash it is a runtime error
C22_HashIndex ==
    [][(ExecIndex /\ sp >= 2) =>
          /\ (IndexLeft.type = HASH_OBJ
               /\ IndexIndex.type \in {INTEGER_OBJ, BOOLEAN_OBJ, STRING_OBJ}) =>
                  /\ status' = "running"
                  /\ sp' = sp - 1
                  /\ stack'[sp - 1].id = HashValueAt(IndexLeft, IndexIndex).id
          /\ (IndexLeft.type = HASH_OBJ
               /\ IndexIndex.type \notin {INTEGER_OBJ, BOOLEAN_OBJ, STRING_OBJ}) =>
                  /\ status' = "failed"
                  /\ stack' = stack
          /\ IndexLeft.type \notin {"nil", ARRAY_OBJ, HASH_OBJ} =>
                  /\ status' = "failed"
                  /\ stack' = stack]_vars

\* C22, its case: a Hash was indexed with a Hash and the run ended with
\* the error of executeHashIndex
C22_Witness ==
    /\ Name = "hashIndex"
    /\ lastOp = OpIndex
    /\ status = "failed"
    /\ err[1] = "index not hashable"
    /\ err[2] = HASH_OBJ

\* the operand of the OpHash about to be dispatched and its key slots
HashOperand == ReadUint16(NextIns, NextIp + 1)
KeySlots == {i \in (sp - HashOperand)..(sp - 1) : (i - (sp - HashOperand)) % 2 = 0}

\* the last key slot holding a key with the HashKey of slot i
LastSlotLike(i) ==
    CHOOSE j \in KeySlots :
        /\ HashKey(StackAt(VM, j)) = HashKey(StackAt(VM, i))
        /\ \A k \in KeySlots :
              HashKey(StackAt(VM, k)) = HashKey(StackAt(VM, i)) => k <= j

\* C23: OpHash n builds a Hash of the n/2 (key, value) pairs in
\* stack[sp - n .. sp), sets sp to sp - n and pushes it; when a key slot
\* holds a value that is not hashable Run returns the error
\* `unusable as hash key: <T>`, pushes nothing and leaves sp unchanged
C23_BuildHash ==
    [][(ExecHash /\ HasUint16(NextIns, NextIp) /\ HashOperand <= sp) =>
          IF \A i \in KeySlots : Hashable(StackAt(VM, i))
          THEN /\ status' = "running"
               /\ sp' = sp - HashOperand + 1
               /\ stack'[sp'].type = HASH_OBJ
               /\ \A i \in KeySlots :
                     \E e \in 1..Len(stack'[sp'].val) :
                         /\ stack'[sp'].val[e].hk = HashKey(StackAt(VM, i))
                         /\ stack'[sp'].val[e].Key.id = StackAt(VM, LastSlotLike(i)).id
                         /\ stack'[sp'].val[e].Value.id =
                               StackAt(VM, LastSlotLike(i) + 1).id
               /\ Len(stack'[sp'].val)
                     = Cardinality({HashKey(StackAt(VM, i)) : i \in KeySlots})
          ELSE /\ status' = "failed"
               /\ err' = <<"unusable as hash key",
                           StackAt(VM, CHOOSE i \in KeySlots :
                               /\ ~Hashable(StackAt(VM, i))
                               /\ \A k \in KeySlots :
                                     ~Hashable(StackAt(VM, k)) => i <= k).type>>
               /\ sp' = sp
               /\ stack' = stack]_vars

\* the one truthiness predicate: False and Null are falsy
Falsy(obj) ==
    \/ obj.type = BOOLEAN_OBJ /\ obj.val = FALSE
    \/ obj.type = NULL_OBJ

\* C24: a value is falsy exactly when it is False or Null, everything
\* else is truthy; OpJumpNotTruthy pops one value and jumps to its operand
\* iff the value is falsy, otherwise execution continues after the
\* operand; OpBang pops one value and pushes True iff it was falsy
C24_Truthiness ==
    [][/\ (ExecJumpNotTruthy /\ HasUint16(NextIns, NextIp) /\ sp >= 1) =>
            /\ status' = "running"
            /\ sp' = sp - 1
            /\ stack' = stack
            /\ frames'[fp].ip =
                  (IF Falsy(StackAt(VM, sp - 1))
                   THEN ReadUint16(NextIns, NextIp + 1) - 1
                   ELSE NextIp + 2)
       /\ (ExecBang /\ sp >= 1) =>
            /\ status' = "running"
            /\ sp' = sp
            /\ stack'[sp].id =
                  (IF Falsy(StackAt(VM, sp - 1)) THEN True.id ELSE False.id)]_vars

\* C24, its case: the condition Integer 0 was popped by OpJumpNotTruthy
\* and execution continued after the operand, at the consequence
C24_Witness ==
    /\ Name = "truthy"
    /\ lastOp = OpJumpNotTruthy
    /\ status = "running"
    /\ sp = 0
    /\ StackAt(VM, 0).type = INTEGER_OBJ
    /\ StackAt(VM, 0).val = 0
    /\ frames[fp].ip = 5

\* the operands of the binary operation about to be dispatched
BinaryLeft == StackAt(VM, sp - 2)
BinaryRight == StackAt(VM, sp - 1)

\* C25: OpEqual and OpNotEqual on operands that are not both Integers
\* compare object identity; for Booleans and Null the result equals value
\* equality; two Strings created separately compare not equal even with
\* the same content
C25_IdentityComparison ==
    [][(/\ ExecComparison /\ NextOpcode \in {OpEqual, OpNotEqual} /\ sp >= 2
        /\ BinaryLeft.type # "nil" /\ BinaryRight.type # "nil"
        /\ ~(BinaryLeft.type = INTEGER_OBJ /\ BinaryRight.type = INTEGER_OBJ)) =>
          LET same == BinaryLeft.id = BinaryRight.id
              result == stack'[sp - 1]
          IN /\ status' = "running"
             /\ sp' = sp - 1
             /\ result.id = (IF (NextOpcode = OpEqual) = same
                             THEN True.id ELSE False.id)
             /\ (/\ BinaryLeft.type = BinaryRight.type
                 /\ BinaryLeft.type \in {BOOLEAN_OBJ, NULL_OBJ}) =>
                    same = (BinaryLeft.val = BinaryRight.val)
             /\ (/\ BinaryLeft.type = STRING_OBJ /\ BinaryRight.type = STRING_OBJ
                 /\ ~same /\ NextOpcode = OpEqual) =>
                    result.id = False.id]_vars

\* C25, its case: "a" == "a" on two String constants of equal content
\* gave False
C25_Witness ==
    /\ Name = "misc"
    /\ lastOp = OpEqual
    /\ status = "running"
    /\ sp = 1
    /\ stack[1].id = False.id
    /\ Len(constants) = 2
    /\ constants[1].type = STRING_OBJ
    /\ constants[2].type = STRING_OBJ
    /\ constants[1].val = constants[2].val
    /\ StackAt(VM, 1).id = constants[2].id

\* C26: arithmetic on operand types it is not defined for is a runtime
\* error and pushes nothing: a binary operation on operands that are not
\* both Integers nor both Strings fails with `unsupported types for binary
\* operation: <L> <R>`; OpSub, OpMul and OpDiv on two Strings fail with the
\* unknown string operator error, OpAdd alone concatenates them, left
\* operand first; OpMinus on a non-Integer fails with `unsupported type
\* for negation: <T>`
C26_UnsupportedOperands ==
    [][/\ (/\ ExecArithmetic /\ sp >= 2
           /\ BinaryLeft.type # "nil" /\ BinaryRight.type # "nil"
           /\ ~(BinaryLeft.type = INTEGER_OBJ /\ BinaryRight.type = INTEGER_OBJ)) =>
             IF BinaryLeft.type = STRING_OBJ /\ BinaryRight.type = STRING_OBJ
             THEN IF NextOpcode = OpAdd
                  THEN /\ status' = "running"
                       /\ sp' = sp - 1
                       /\ stack'[sp - 1].type = STRING_OBJ
                       /\ stack'[sp - 1].val = BinaryLeft.val \o BinaryRight.val
                  ELSE /\ status' = "failed"
                       /\ err' = <<"unknown string operater", NextOpcode>>
                       /\ stack' = stack
             ELSE /\ status' = "failed"
                  /\ err' = <<"unsupported types for binary operation",
                              BinaryLeft.type, BinaryRight.type>>
                  /\ stack' = stack
       /\ (/\ ExecMinus /\ sp >= 1
           /\ BinaryRight.type \notin {"nil", INTEGER_OBJ}) =>
             /\ status' = "failed"
             /\ err' = <<"unsupported type for negation", BinaryRight.type>>
             /\ stack' = stack]_vars

\* C26, its case: "a" * "b" ended the run with the unknown string
\* operator error, both operands still where they were
C26_Witness ==
    /\ Name = "typeError"
    /\ lastOp = OpMul
    /\ status = "failed"
    /\ err = <<"unknown string operater", OpMul>>
    /\ StackAt(VM, 0).type = STRING_OBJ
    /\ StackAt(VM, 1).type = STRING_OBJ

\* C28: Integer OpAdd, OpSub, OpMul and OpMinus never fail on overflow:
\* the result is the exact one reduced to the signed two's complement
\* range (MaxInt + 1 = MinInt, -MinInt = MinInt)
C28_IntegerWraps ==
    [][/\ (/\ ExecArithmetic /\ NextOpcode \in {OpAdd, OpSub, OpMul} /\ sp >= 2
           /\ BinaryLeft.type = INTEGER_OBJ /\ BinaryRight.type = INTEGER_OBJ) =>
             /\ status' = "running"
             /\ sp' = sp - 1
             /\ stack'[sp - 1].type = INTEGER_OBJ
             /\ stack'[sp - 1].val =
                   Signed(CASE NextOpcode = OpAdd -> BinaryLeft.val + BinaryRight.val
                            [] NextOpcode = OpSub -> BinaryLeft.val - BinaryRight.val
                            [] NextOpcode = OpMul -> BinaryLeft.val * BinaryRight.val)
       /\ (ExecMinus /\ sp >= 1 /\ BinaryRight.type = INTEGER_OBJ) =>
             /\ status' = "running"
             /\ sp' = sp
             /\ stack'[sp].type = INTEGER_OBJ
             /\ stack'[sp].val = Signed(-BinaryRight.val)]_vars

\* C28, its case: the smallest Integer was negated and the result is the
\* smallest Integer
C28_Witness ==
    /\ Name = "overflow"
    /\ lastOp = OpMinus
    /\ status = "running"
    /\ sp = 1
    /\ stack[1].type = INTEGER_OBJ
    /\ stack[1].val = -HalfWord
    /\ Len(constants) = 2

\* The names in scope while a program is read in the order Compile visits
\* its nodes: the builtins, the names of the let statements already
\* completed and the parameters of the enclosing function literals.
\* found/name: the first identifier that is in none of them; consts and
\* loads: the literals and the identifiers read before it.
NothingRead ==
    [names |-> {Builtins[i] : i \in 1..Len(Builtins)},
     found |-> FALSE, name |-> "", consts |-> 0, loads |-> 0]

RECURSIVE Read(_, _)
RECURSIVE ReadRange(_, _, _, _)

\* nodes[lo..hi] read in order (by halves, which keeps the nesting of
\* the evaluation logarithmic in the number of nodes)
ReadRange(r, nodes, lo, hi) ==
    IF lo > hi \/ r.found THEN r
    ELSE IF lo = hi THEN Read(r, nodes[lo])
    ELSE LET mid == (lo + hi) \div 2
         IN ReadRange(ReadRange(r, nodes, lo, mid), nodes, mid + 1, hi)

ReadAll(r, nodes, i) == ReadRange(r, nodes, i, Len(nodes))

Read(r, node) ==
    IF r.found THEN r
    ELSE CASE node.kind \in {"Program", "BlockStatement"} ->
                 ReadAll(r, node.Statements, 1)
           [] node.kind = "ExpressionStatement" -> Read(r, node.Expression)
           [] node.kind = "ReturnStatement" -> Read(r, node.ReturnValue)
           [] node.kind = "LetStatement" ->
                 LET r1 == Read(r, node.Value)
                 IN IF r1.found THEN r1
                    ELSE [r1 EXCEPT !.names = @ \cup {node.Name}]
           [] node.kind = "Identifier" ->
                 IF node.Value \in r.names
                 THEN [r EXCEPT !.loads = @ + 1]
                 ELSE [r EXCEPT !.found = TRUE, !.name = node.Value]
           [] node.kind \in {"IntegerLiteral", "StringLiteral"} ->
                 [r EXCEPT !.consts = @ + 1]
           [] node.kind = "PrefixExpression" -> Read(r, node.Right)
           [] node.kind = "InfixExpression" ->
                 IF node.Operator = "<"
                 THEN Read(Read(r, node.Right), node.Left)
                 ELSE Read(Read(r, node.Left), node.Right)
           [] node.kind = "IfExpression" ->
                 LET r1 == Read(Read(r, node.Condition), node.Consequence)
                 IN IF node.Alternative.kind = "nil" THEN r1
                    ELSE Read(r1, node.Alternative)
           [] node.kind = "ArrayLiteral" -> ReadAll(r, node.Elements, 1)
           [] node.kind = "HashLiteral" ->
                 LET pairs == SortPairs(node.Pairs, Len(node.Pairs))
                 IN ReadAll(r, [i \in 1..(2 * Len(pairs)) |->
                                   pairs[(i + 1) \div 2][2 - (i % 2)]], 1)
           [] node.kind = "IndexExpression" ->
                 Read(Read(r, node.Left), node.Index)
           [] node.kind = "CallExpression" ->
                 ReadAll(Read(r, node.Function), node.Arguments, 1)
           [] node.kind = "FunctionLiteral" ->
                 LET params == {node.Parameters[i] : i \in 1..Len(node.Parameters)}
                     r1 == Read([r EXCEPT !.names = @ \cup params], node.Body)
                 IN IF r1.found THEN r1
                    ELSE [r1 EXCEPT !.names = r.names, !.consts = @ + 1]
           [] OTHER -> r

\* the load instructions in a sequence of instructions
Loads(ins) ==
    {pos \in InstructionStarts(ins, 0) :
        ins[pos + 1] \in {OpGetGlobal, OpGetLocal, OpGetBuiltin, OpGetFree}}

\* C27: Compile returns the error `undefined variable <name>` for an
\* identifier that resolves in no scope (current, enclosing, global,
\* builtin); no load instruction is emitted for it and nothing after it
\* is compiled; the name a let statement binds is not visible in its own
\* right-hand side unless an earlier statement defined it
C27_UndefinedVariable ==
    LET r == Read(NothingRead, Ast)
    IN r.found =>
         /\ compileErr = <<"undefined variable", r.name>>
         /\ Len(constants) = r.consts
         /\ Cardinality(Loads(mainFn.val.Instructions)) <= r.loads

\* The lines of a REPL session read as a program text: the value each
\* name was last bound to by a let, and the value of the last statement.
\* ok is FALSE from the first use of a name no let has bound.
ReplNames == {"a", "b", "c", "nope"}
Unbound == [bound |-> FALSE, val |-> 0]
Bound(v) == [bound |-> TRUE, val |-> v]

RECURSIVE Value(_, _)
Value(env, e) ==
    CASE e.kind = "Identifier" -> env[e.Value]
      [] e.kind = "IntegerLiteral" -> Bound(e.Value)
      [] e.kind = "InfixExpression" ->
            LET l == Value(env, e.Left)
                r == Value(env, e.Right)
            IN IF l.bound /\ r.bound THEN Bound(l.val + r.val) ELSE Unbound
      [] OTHER -> Unbound

RECURSIVE After(_, _, _)
After(t, stmts, i) ==
    IF i > Len(stmts) \/ ~t.ok THEN t
    ELSE LET v == Value(t.env, IF stmts[i].kind = "LetStatement"
                               THEN stmts[i].Value ELSE stmts[i].Expression)
         IN IF ~v.bound THEN [t EXCEPT !.ok = FALSE]
            ELSE IF stmts[i].kind = "LetStatement"
            THEN After([t EXCEPT !.env[stmts[i].Name] = v, !.last = v], stmts, i + 1)
            ELSE After([t EXCEPT !.last = v], stmts, i + 1)

RECURSIVE Session(_, _)
Session(lines, k) ==
    IF k = 0
    THEN [env |-> [n \in ReplNames |-> Unbound], last |-> Unbound, ok |-> TRUE]
    ELSE After(Session(lines, k - 1), ReplLines[lines[k]].Statements, 1)

\* the line binds the name with a let
LineLets(l, n) ==
    \E i \in 1..Len(ReplLines[l].Statements) :
        /\ ReplLines[l].Statements[i].kind = "LetStatement"
        /\ ReplLines[l].Statements[i].Name = n

----------------------------------------------------------------------------
(* The symbol table under a sequence of calls: Define, DefineBuiltin,      *)
(* Resolve on the innermost table, and NewEnclosedSymbolTable on it.       *)

SymNames == {"a", "b"}

SymInit ==
    /\ program = 0
    /\ compileErr = NoError
    /\ constants = <<>>
    /\ mainFn = CompiledFunction(<<>>, 0, 0, FirstHeapId)
    /\ frames = <<>>
    /\ fp = 0
    /\ stack = <<>>
    /\ sp = 0
    /\ globals = <<>>
    /\ heap = 1
    /\ status = "symtab"
    /\ err = NoError
    /\ lastOp = -1
    /\ basePointers = <<>>
    /\ codec = IdleCodec
    /\ repl = IdleRepl
    /\ symtab = [IdleSymtab EXCEPT !.tables = <<NewSymbolTable>>, !.defines = <<0>>]

\* the variables no symbol-table call changes
SymOthers ==
    <<program, compileErr, constants, mainFn, frames, fp, stack, sp, globals,
      heap, status, err, lastOp, basePointers, codec, repl>>

\* one more call can be made
SymReady == status = "symtab" /\ symtab.calls < MaxCalls

\* the tables after a call and what it returned
Called(op, name, tables, defines, ret) ==
    [tables |-> tables, defines |-> defines, calls |-> symtab.calls + 1,
     op |-> op, name |-> name, ret |-> ret, ok |-> TRUE]

\* the innermost table: the calls are made on it
SymCurrent == symtab.tables[Len(symtab.tables)]

\* s.Define(name)
SymDefine ==
    /\ SymReady
    /\ \E name \in SymNames :
          symtab' = Called("define", name,
                           [symtab.tables EXCEPT ![Len(symtab.tables)] = Define(@, name)],
                           [symtab.defines EXCEPT ![Len(symtab.tables)] = @ + 1],
                           DefinedSymbol(SymCurrent, name))
    /\ UNCHANGED SymOthers

\* s.DefineBuiltin(i, name)
SymDefineBuiltin ==
    /\ SymReady
    /\ \E i \in 1..2 :
          symtab' = Called("define_builtin", Builtins[i],
                           [symtab.tables EXCEPT ![Len(symtab.tables)] =
                                DefineBuiltin(@, i - 1, Builtins[i])],
                           symtab.defines,
                           Symbol(Builtins[i], BuiltinScope, i - 1))
    /\ UNCHANGED SymOthers

\* s.Resolve(name): the symbol of the store and ok, or the zero Symbol
\* and false
SymResolve ==
    /\ SymReady
    /\ \E name \in SymNames \cup {Builtins[1]} :
          symtab' =
            IF ResolveOk(SymCurrent, name)
            THEN Called("resolve", name, symtab.tables, symtab.defines,
                        Resolve(SymCurrent, name))
            ELSE [Called("resolve", name, symtab.tables, symtab.defines,
                         Symbol("", "", 0)) EXCEPT !.ok = FALSE]
    /\ UNCHANGED SymOthers

\* NewEnclosedSymbolTable(s)
SymEnclose ==
    /\ SymReady
    /\ symtab' = Called("enclose", "", Append(symtab.tables, NewSymbolTable),
                        Append(symtab.defines, 0), symtab.ret)
    /\ UNCHANGED SymOthers

SymNext == SymDefine \/ SymDefineBuiltin \/ SymResolve \/ SymEnclose

SymSpec == SymInit /\ [][SymNext]_vars

\* C30: on one table the k-th define returns index k (counting from 0),
\* with scope Global when the table has no outer table and Local
\* otherwise; defining a name again allocates a fresh index and resolve
\* then returns the most recent symbol; define_builtin does not change
\* num_definitions, so the first user global has index 0 whatever the
\* number of builtins
C30_DefineIndexScope ==
    [][/\ SymDefine =>
            /\ symtab'.ret.Index = symtab.defines[Len(symtab.tables)]
            /\ symtab'.ret.Scope =
                  (IF Len(symtab.tables) = 1 THEN GlobalScope ELSE LocalScope)
            /\ ResolveOk(symtab'.tables[Len(symtab.tables)], symtab'.name)
            /\ Resolve(symtab'.tables[Len(symtab.tables)], symtab'.name)
                  = symtab'.ret
       /\ SymDefineBuiltin =>
            symtab'.tables[Len(symtab.tables)].numDefinitions
              = SymCurrent.numDefinitions]_vars

\* the innermost table at or above which the name is defined, 0 if none
DefiningTable(tables, name) ==
    IF \E j \in 1..Len(tables) : StoreHas(tables[j], name)
    THEN CHOOSE j \in 1..Len(tables) :
             /\ StoreHas(tables[j], name)
             /\ \A k \in (j + 1)..Len(tables) : ~StoreHas(tables[k], name)
    ELSE 0

\* the position of the name in a list of free symbols (from 0), -1 if absent
FreeIndex(free, name) ==
    IF \E i \in 1..Len(free) : free[i].Name = name
    THEN (CHOOSE i \in 1..Len(free) : free[i].Name = name) - 1
    ELSE -1

\* C31: resolve(name) from a scope nested at any depth returns a symbol
\* defined as Global or Builtin in an ancestor unchanged and adds nothing
\* to any free_symbols list; for a name defined as Local or Free in an
\* enclosing function scope it returns a Free symbol whose index is its
\* position in the current scope's free_symbols, and every scope between
\* the defining one and the current one records the name in its own
\* free_symbols
C31_ResolveThroughScopes ==
    [][SymResolve =>
         LET d == Len(symtab.tables)
             j == DefiningTable(symtab.tables, symtab'.name)
             found == StoreGet(symtab.tables[j], symtab'.name)
         IN (j > 0 /\ j < d) =>
              IF found.Scope \in {GlobalScope, BuiltinScope}
              THEN /\ symtab'.ok
                   /\ symtab'.ret = found
                   /\ \A k \in 1..d :
                         symtab'.tables[k].FreeSymbols = symtab.tables[k].FreeSymbols
              ELSE /\ symtab'.ok
                   /\ symtab'.ret.Scope = FreeScope
                   /\ symtab'.ret.Index
                         = FreeIndex(symtab'.tables[d].FreeSymbols, symtab'.name)
                   /\ \A k \in (j + 1)..d :
                         FreeIndex(symtab'.tables[k].FreeSymbols, symtab'.name) >= 0]_vars

\* the offsets of the OpReturn instructions of the buffer (a buffer
\* without a byte equal to OpReturn has none)
OpReturns(ins) ==
    IF \A i \in 1..Len(ins) : ins[i] # OpReturn THEN {}
    ELSE {p \in InstructionStarts(ins, 0) : ins[p + 1] = OpReturn}

\* the opcode of the instruction before the one at p (-1 if p is the first)
OpcodeBefore(ins, p) ==
    LET before == {q \in InstructionStarts(ins, 0) : q < p}
    IN IF before = {} THEN -1
       ELSE ins[(CHOOSE q \in before : \A r \in before : r <= q) + 1]

\* C32 as stated: the compiler never emits OpReturn, the instructions of
\* every compiled function literal contain no OpReturn opcode
C32_NeverOpReturn ==
    compileErr = NoError =>
        \A f \in CompiledFunctions : OpReturns(f.val.Instructions) = {}

\* C32 amended: the compiler emits OpReturn only as the last instruction
\* of a function literal, after a body that leaves neither OpPop nor
\* OpReturnValue as its last instruction (an empty body, a body ending in
\* a let statement); it is never in the top-level instructions and never
\* before the end of a function
C32_OpReturnOnlyLast ==
    compileErr = NoError =>
        /\ OpReturns(mainFn.val.Instructions) = {}
        /\ \A f \in CompiledFunctions :
              \A p \in OpReturns(f.val.Instructions) :
                  /\ p = Len(f.val.Instructions) - 1
                  /\ OpcodeBefore(f.val.Instructions, p)
                        \notin {OpPop, OpReturnValue}

\* C32, its case: fn() { }() is compiled and the function is the single
\* instruction OpReturn
C32_Witness ==
    /\ Name = "emptyFunction"
    /\ compileErr = NoError
    /\ \E f \in CompiledFunctions : f.val.Instructions = <<OpReturn>>

(***************************************************************************)
(* Fetch positions of the run loop.                                        *)
(***************************************************************************)
\* One pass of the loop of Run that ends with the machine still running.
LoopPass ==
    /\ Running /\ fp >= 1 /\ LoopCondition
    /\ status' = "running" /\ frames' # frames

\* The ip that makes the next fetch read the byte after the instruction
\* being executed and all of its operands.
PastOperands == NextIp + InstructionLength(NextOpcode) - 1

\* C33: every pass of the run loop leaves ip on the last byte of the
\* instruction it executed, so the next fetch reads the first byte of an
\* emitted instruction: past the operands of OpCall, OpSetLocal,
\* OpGetLocal, OpGetBuiltin, OpGetFree and OpClosure, at the jump target
\* after a jump, at the first byte of the callee after a call, and at the
\* instruction after the call in the caller after a return.
C33_FetchAtInstructionStart ==
    [][LoopPass =>
        IF fp' = fp + 1
        THEN frames'[fp].ip = PastOperands /\ frames'[fp'].ip = -1
        ELSE IF fp' = fp - 1
        THEN fp' >= 1 => frames'[fp'].ip = frames[fp'].ip
        ELSE IF NextOpcode = OpJump
        THEN frames'[fp].ip = ReadUint16(NextIns, NextIp + 1) - 1
        ELSE IF NextOpcode = OpJumpNotTruthy
        THEN frames'[fp].ip \in {ReadUint16(NextIns, NextIp + 1) - 1,
                                 PastOperands}
        ELSE frames'[fp].ip = PastOperands]_vars

\* C34: while an accepted program runs, and after it has run, the frame
\* index stays between 1 and MaxFrames: the main frame is never popped,
\* not even by an OpReturnValue executed in the main frame for a
\* top-level return statement.
C34_MainFrameKept ==
    compileErr = NoError => (1 <= fp /\ fp <= MaxFrames)

\* C35: whenever Compile has returned, with or without an error, the
\* compiler is in the top-level scope again (scopeIdx 0, one compilation
\* scope, the root symbol table), so Bytecode returns the instructions of
\* the top level; this covers an error met inside a function literal's
\* body after enterScope.
C35_CompileEndsAtTopLevel ==
    (status \in {"ready", "rejected"} /\ lastOp = -1) =>
        \A order \in RangeOrders :
            LET c == Compile(WithRangeOrder(New, order), Ast)
            IN /\ c.scopeIdx = 0
               /\ Len(c.scopes) = 1
               /\ Len(c.symbolTable) = 1
               /\ Bytecode(c).Instructions = c.scopes[1].instructions
               /\ mainFn.val.Instructions = c.scopes[1].instructions

\* The numFree operands of the OpClosure instructions in ins.
NumFrees(ins) ==
    {ReadUint8(ins, p + 3) : p \in {q \in InstructionStarts(ins, 0) :
                                       ins[q + 1] = OpClosure}}

\* C36: a function that reads the same local of its enclosing function
\* several times captures it once: fn(a) { fn() { a + a } } compiles, the
\* inner function loads a both times with OpGetFree 0, and the OpClosure
\* that builds the inner function carries numFree = 1.
C36_CaptureOnce ==
    Name = "captureTwice" =>
        /\ compileErr = NoError
        /\ \E outer \in CompiledFunctions :
              NumFrees(outer.val.Instructions) = {1}
        /\ \E inner \in CompiledFunctions :
              inner.val.Instructions =
                  <<OpGetFree, 0, OpGetFree, 0, OpAdd, OpReturnValue>>

\* C37: in the REPL a line whose compilation failed is never handed to the
\* VM: once the diagnostic is written the loop is at the next prompt (or at
\* the end of the input), with no partial bytecode ready, running or run;
\* and the REPL never inspects a nil last-popped element.  This covers an
\* erroneous first line such as an undefined variable.
C37_ReplSkipsFailedLine ==
    /\ status # "panicked"
    /\ compileErr # NoError => status \in {"prompt", "eof"}

(***************************************************************************)
(* The singletons True, False and Null.                                    *)
(***************************************************************************)
RECURSIVE Canonical(_)
\* Every Boolean in obj, obj included, is True or False itself and every
\* Null is Null itself.
Canonical(obj) ==
    CASE obj.type = BOOLEAN_OBJ -> obj = (IF obj.val THEN True ELSE False)
      [] obj.type = NULL_OBJ -> obj = Null
      [] obj.type = ARRAY_OBJ ->
            \A i \in 1..Len(obj.val) : Canonical(obj.val[i])
      [] obj.type = HASH_OBJ ->
            \A i \in 1..Len(obj.val) :
                Canonical(obj.val[i].Key) /\ Canonical(obj.val[i].Value)
      [] OTHER -> TRUE

\* C38: every Boolean on the stack, in the globals, or inside an Array or a
\* Hash held there is one of the singletons True and False, and every Null
\* is the singleton Null; the constants pool holds no Boolean and no Null.
C38_Singletons ==
    /\ \A i \in 1..Len(stack) : Canonical(stack[i])
    /\ \A i \in 1..Len(globals) : Canonical(globals[i])
    /\ \A i \in 1..Len(constants) :
          constants[i].type \notin {BOOLEAN_OBJ, NULL_OBJ}

\* let t = 1 < 2; let n = if (false) { 1 }; [t, n, !t, {t: n}] has run:
\* the comparison's True and the if's Null are in the globals and inside
\* the array and the hash on the stack.
C38_Witness ==
    /\ Name = "singletons"
    /\ status = "halted"
    /\ globals = <<True, Null>>
    /\ LastPoppedStackElem.type = ARRAY_OBJ
    /\ LastPoppedStackElem.val[1] = True
    /\ LastPoppedStackElem.val[2] = Null
    /\ LastPoppedStackElem.val[3] = False
    /\ LastPoppedStackElem.val[4].val[1].Key = True
    /\ LastPoppedStackElem.val[4].val[1].Value = Null

(***************************************************************************)
(* HashKey as a function of type and value.                                *)
(***************************************************************************)
\* C39: HashKey is injective on Integers and on Booleans, the HashKeys of
\* objects of different types are never equal, the HashKey of a negative
\* Integer has its value in the upper half of the unsigned range (2^63 and
\* above for 64 bits), and the hash built from {1: x, true: y} holds two
\* entries.
C39_HashKeyInjective ==
    /\ \A a, b \in HashableObjects :
          /\ (a.type = b.type /\ a.type \in {INTEGER_OBJ, BOOLEAN_OBJ}
                /\ HashKey(a) = HashKey(b)) => a.val = b.val
          /\ a.type # b.type => HashKey(a) # HashKey(b)
    /\ \A a \in HashableObjects :
          (a.type = INTEGER_OBJ /\ a.val < 0) =>
              (HalfWord <= HashKey(a)[2] /\ HashKey(a)[2] < 2 * HalfWord)
    /\ (Name = "mixedKeys" /\ status = "halted"
          /\ Len(Ast.Statements[1].Expression.Pairs) = 2) =>
          /\ LastPoppedStackElem.type = HASH_OBJ
          /\ Len(LastPoppedStackElem.val) = 2

\* The hash literal with an Integer 1, a String "1", both Booleans, 0 and
\* two negative Integers as keys has been built: every key has an entry of
\* its own.
C39_Witness ==
    /\ Name = "mixedKeys"
    /\ status = "halted"
    /\ LastPoppedStackElem.type = HASH_OBJ
    /\ Len(LastPoppedStackElem.val) = 7
    /\ \E i \in 1..7 : /\ LastPoppedStackElem.val[i].Key.type = INTEGER_OBJ
                       /\ LastPoppedStackElem.val[i].Key.val = -1
                       /\ LastPoppedStackElem.val[i].hk[2] = 2 * HalfWord - 1

-----------------------------------------------------------------------------
(***************************************************************************)
(* package evaluator: the tree-walking Eval, on programs without           *)
(* identifiers and functions (the environment is never read).  TRUE, FALSE *)
(* and NULL of the evaluator are True, False and Null; an Integer made by  *)
(* Eval is an object of its own (id 0 here, never compared by id); a nil   *)
(* interface is Nil; a Go panic (nil dereference, division by zero) is an  *)
(* object of type "panic" that every caller hands on.                      *)
(***************************************************************************)
ERROR_OBJ == "ERROR"
RETURN_VALUE_OBJ == "RETURN_VALUE"

newError(msg) == Obj(ERROR_OBJ, msg, 0)
ReturnValue(val) == Obj(RETURN_VALUE_OBJ, val, 0)
EvalPanic(cause) == Obj("panic", cause, 0)
Panicked(obj) == obj.type = "panic"

\* isError
isError(obj) == obj.type = ERROR_OBJ

\* left == right on two interface values: the same object
SameObject(left, right) ==
    /\ left.id \in {True.id, False.id, Null.id}
    /\ left.id = right.id

\* isTruthy of the evaluator
evalIsTruthy(obj) == obj.id \notin {Null.id, False.id}

evalBangOperatorExpression(obj) ==
    IF obj.id = True.id THEN False
    ELSE IF obj.id = False.id THEN True
    ELSE IF obj.id = Null.id THEN True
    ELSE False

evalMinusPrefixOperatorExpression(obj) ==
    IF obj.type = "nil" THEN EvalPanic(NilDereference)
    ELSE IF obj.type # INTEGER_OBJ THEN newError(<<"unknown operator", "-", obj.type>>)
    ELSE Obj(INTEGER_OBJ, Wrap64(-obj.val), 0)

evalPrefixExpression(op, exp) ==
    CASE op = "!" -> evalBangOperatorExpression(exp)
      [] op = "-" -> evalMinusPrefixOperatorExpression(exp)
      [] OTHER -> newError(<<"unknown operator", op, exp.type>>)

evalIntegerInfixExpression(op, left, right) ==
    LET lval == left.val
        rval == right.val
    IN CASE op = "+" -> Obj(INTEGER_OBJ, Wrap64(lval + rval), 0)
         [] op = "-" -> Obj(INTEGER_OBJ, Wrap64(lval - rval), 0)
         [] op = "*" -> Obj(INTEGER_OBJ, Wrap64(lval * rval), 0)
         [] op = "/" -> IF rval = 0 THEN EvalPanic(DivideByZero)
                        ELSE Obj(INTEGER_OBJ, Wrap64(GoDiv(lval, rval)), 0)
         [] op = "<" -> nativeBoolToBooleanObject(lval < rval)
         [] op = ">" -> nativeBoolToBooleanObject(lval > rval)
         [] op = "==" -> nativeBoolToBooleanObject(lval = rval)
         [] op = "!=" -> nativeBoolToBooleanObject(lval # rval)
         [] OTHER -> newError(<<"unknown operator", left.type, op, right.type>>)

evalInfixExpression(op, left, right) ==
    IF left.type = "nil" \/ right.type = "nil" THEN EvalPanic(NilDereference)
    ELSE IF left.type = INTEGER_OBJ /\ right.type = INTEGER_OBJ
    THEN evalIntegerInfixExpression(op, left, right)
    ELSE IF op = "==" THEN nativeBoolToBooleanObject(SameObject(left, right))
    ELSE IF op = "!=" THEN nativeBoolToBooleanObject(~SameObject(left, right))
    ELSE IF left.type # right.type
    THEN newError(<<"type mismatch", left.type, op, right.type>>)
    ELSE newError(<<"unknown operator", left.type, op, right.type>>)

RECURSIVE Eval(_)
RECURSIVE evalProgram(_, _, _)
RECURSIVE evalBlockStatement(_, _, _)

\* evalProgram from statement i on, result being the value of the last
\* statement evaluated
evalProgram(stmts, i, result) ==
    IF i > Len(stmts) THEN result
    ELSE LET r == Eval(stmts[i])
         IN IF r.type = RETURN_VALUE_OBJ THEN r.val
            ELSE IF isError(r) \/ Panicked(r) THEN r
            ELSE evalProgram(stmts, i + 1, r)

evalBlockStatement(stmts, i, result) ==
    IF i > Len(stmts) THEN result
    ELSE LET r == Eval(stmts[i])
         IN IF r.type \in {RETURN_VALUE_OBJ, ERROR_OBJ} \/ Panicked(r) THEN r
            ELSE evalBlockStatement(stmts, i + 1, r)

evalIfExpression(exp) ==
    LET condition == Eval(exp.Condition)
    IN IF isError(condition) \/ Panicked(condition) THEN condition
       ELSE IF evalIsTruthy(condition) THEN Eval(exp.Consequence)
       ELSE IF exp.Alternative.kind # "nil" THEN Eval(exp.Alternative)
       ELSE Null

Eval(node) ==
    CASE node.kind = "Program" -> evalProgram(node.Statements, 1, Nil)
      [] node.kind = "ExpressionStatement" -> Eval(node.Expression)
      [] node.kind = "IntegerLiteral" -> Obj(INTEGER_OBJ, node.Value, 0)
      [] node.kind = "Boolean" -> nativeBoolToBooleanObject(node.Value)
      [] node.kind = "PrefixExpression" ->
            LET right == Eval(node.Right)
            IN IF isError(right) \/ Panicked(right) THEN right
               ELSE evalPrefixExpression(node.Operator, right)
      [] node.kind = "InfixExpression" ->
            LET left == Eval(node.Left)
            IN IF isError(left) \/ Panicked(left) THEN left
               ELSE LET right == Eval(node.Right)
                    IN IF isError(right) \/ Panicked(right) THEN right
                       ELSE evalInfixExpression(node.Operator, left, right)
      [] node.kind = "BlockStatement" -> evalBlockStatement(node.Statements, 1, Nil)
      [] node.kind = "IfExpression" -> evalIfExpression(node)
      [] node.kind = "ReturnStatement" ->
            LET val == Eval(node.ReturnValue)
            IN IF isError(val) \/ Panicked(val) THEN val ELSE ReturnValue(val)
      [] OTHER -> Nil

RECURSIVE InFragment(_)
\* node is made of integer and boolean literals, prefix ! and -, the eight
\* infix operators, if with or without else, expression statements and
\* return statements only.
InFragment(node) ==
    CASE node.kind \in {"Program", "BlockStatement"} ->
            \A i \in 1..Len(node.Statements) : InFragment(node.Statements[i])
      [] node.kind = "ExpressionStatement" -> InFragment(node.Expression)
      [] node.kind = "ReturnStatement" -> InFragment(node.ReturnValue)
      [] node.kind \in {"IntegerLiteral", "Boolean"} -> TRUE
      [] node.kind = "PrefixExpression" ->
            node.Operator \in {"!", "-"} /\ InFragment(node.Right)
      [] node.kind = "InfixExpression" ->
            /\ node.Operator \in {"+", "-", "*", "/", "<", ">", "==", "!="}
            /\ InFragment(node.Left) /\ InFragment(node.Right)
      [] node.kind = "IfExpression" ->
            /\ InFragment(node.Condition) /\ InFragment(node.Consequence)
            /\ (node.Alternative.kind # "nil" => InFragment(node.Alternative))
      [] OTHER -> FALSE

\* Eval gives the program a value: an Integer, a Boolean or Null.
Evaluates ==
    InFragment(Ast) /\ Eval(Ast).type \in {INTEGER_OBJ, BOOLEAN_OBJ, NULL_OBJ}

\* C40: a program of integer and boolean literals, prefix and infix
\* operators, if/else and return that Eval gives an Integer, a Boolean or
\* Null is accepted by the compiler, the VM runs it to the end without an
\* error or a panic, and the last popped stack element is then the same
\* value; this covers an if with an empty block and a top-level return.
C40_EvalAgrees ==
    Evaluates =>
        /\ status \notin {"rejected", "failed", "panicked"}
        /\ status = "halted" =>
              /\ LastPoppedStackElem.type = Eval(Ast).type
              /\ LastPoppedStackElem.type # NULL_OBJ =>
                    LastPoppedStackElem.val = Eval(Ast).val

====
